---- MODULE Spec2Model ----
(***************************************************************************)
(* A model of the aurio playback engine: the engine (control) thread of    *)
(* src/src/engine.rs, the scheduler worker (timing_thread), the audio      *)
(* callback, pattern expansion (src/src/timing/scheduler.rs), note         *)
(* normalisation (src/src/timing/sequence.rs) and the per-note envelope    *)
(* and oscillator state (src/src/audio/track.rs).                          *)
(*                                                                         *)
(* Time is counted in samples.  Beats, ADSR times and envelope times are   *)
(* integers (the f32 arithmetic of the source is modelled by integer       *)
(* arithmetic with the same truncations); an envelope level is an integer  *)
(* in 0..LevelOne; an oscillator phase accumulator is represented by the   *)
(* number of increments applied to it since the note started.              *)
(* Option<T> is modelled as a sequence: <<>> is None, <<x>> is Some(x).    *)
(***************************************************************************)
EXTENDS Integers, Sequences, FiniteSets, TLC

\* ------------------------------------------------------------------ bounds
\* The audio callback is not invoked once the clock would pass MaxClock.
MaxClock == 5
\* The host asks for MinFrames..MaxFrames frames per callback.
MinFrames == 2
MaxFrames == 3
\* Number of commands the control side sends.
MaxCmds == 3
\* Capacity of the event ring buffer (4096 in setup_audio, scaled down).
QueueCap == 8
\* Fixed-point scale of envelope levels (1.0 in the source).
LevelOne == 4
\* bits of the significand of the envelope time (an f32 holds 24)
MantissaBits == 3
\* Sequence boundaries the scheduler worker processes in one session.
MaxTransitions == 10

None == <<>>
Some(x) == <<x>>

Min(a, b) == IF a <= b THEN a ELSE b
Max(a, b) == IF a >= b THEN a ELSE b

\* ------------------------------------------------------------ project data
Note(p, v, s, d) ==
    [pitch |-> p, velocity |-> v, start_beat |-> s, duration_beats |-> d]

Static(bars, sig, notes) ==
    [kind |-> "Static", duration_bars |-> bars, time_signature |-> sig,
     notes |-> notes, function |-> [result |-> "Err", notes |-> <<>>]]

Generated(bars, sig, fn) ==
    [kind |-> "Generated", duration_bars |-> bars, time_signature |-> sig,
     notes |-> <<>>, function |-> fn]

\* The source of a pattern script, represented by what evaluating it gives:
\* a note table, or an error.
Script(notes) == [result |-> "Ok", notes |-> notes]
FailingScript == [result |-> "Err", notes |-> <<>>]

Node(id, sequence) == [id |-> id, sequence |-> sequence]

\* Edge (inlet_hook is never read and is left out)
EdgeWhen(from, to, condition, timing) ==
    [from |-> from, to |-> to, condition |-> condition, timing |-> timing]

Edge(from, to) == EdgeWhen(from, to, "true", "FinishSequence")

ADSR(a, d, s, r) == [attack |-> a, decay |-> d, sustain |-> s, release |-> r]

\* MultiOsc: one semitone offset per oscillator (wave and gain only scale
\* the output sample).
MultiOsc(semitones) == [kind |-> "MultiOsc", oscillators |-> semitones]

Sampler == [kind |-> "Sampler", oscillators |-> <<>>]

\* Faulty variant of execute_pattern: a failing script yields a default note.
execute_pattern_default(function) ==
    IF function.result = "Ok" THEN <<"Ok", function.notes>>
    ELSE <<"Ok", <<Note(60, 100, 0, 1)>>>>

\* LuaRuntime::execute_pattern: <<"Ok", notes>> or <<"Err", <<>>>>.
execute_pattern(function) == <<function.result, function.notes>>

Riff == Script(<<Note(62, 90, 1, 1), Note(60, 80, 0, 1), Note(60, 120, 1, 1)>>)

GraphLoop ==
    [nodes |-> <<Node("A", Static(1, <<2, 4>>,
                      <<Note(62, 90, 1, 1), Note(60, 100, 0, 1)>>)),
                 Node("B", Generated(1, <<2, 4>>, Riff))>>,
     edges |-> <<Edge("A", "B"), Edge("B", "A")>>]

\* GraphLoop with an edited pattern on node B (topology unchanged).
GraphLoopEdited ==
    [nodes |-> <<Node("A", Static(1, <<2, 4>>,
                      <<Note(62, 90, 1, 1), Note(60, 100, 0, 1)>>)),
                 Node("B", Static(1, <<2, 4>>, <<Note(62, 90, 0, 1)>>))>>,
     edges |-> <<Edge("A", "B"), Edge("B", "A")>>]

GraphSingle ==
    [nodes |-> <<Node("A", Static(1, <<3, 4>>, <<Note(64, 100, 0, 1)>>))>>,
     edges |-> <<>>]

TrackData(id, instrument, volume, pan, graph) ==
    [id |-> id, instrument |-> instrument, adsr |-> ADSR(1, 1, 2, 1),
     volume |-> volume, pan |-> pan, initial_node |-> "A", graph |-> graph]

MkProject(name, tracks) ==
    [name |-> name, bpm |-> 60, sample_rate |-> 2, tracks |-> tracks]

ProjBase ==
    MkProject("base", <<TrackData(0, MultiOsc(<<0>>), 2, 0, GraphLoop),
                        TrackData(1, MultiOsc(<<0>>), 2, 0, GraphSingle)>>)

\* ProjBase with only volume and pan of track 0 changed.
ProjVolPan ==
    MkProject("base", <<TrackData(0, MultiOsc(<<0>>), 1, 1, GraphLoop),
                        TrackData(1, MultiOsc(<<0>>), 2, 0, GraphSingle)>>)

\* ProjBase with the pattern of node B of track 0 edited.
ProjPattern ==
    MkProject("base", <<TrackData(0, MultiOsc(<<0>>), 2, 0, GraphLoopEdited),
                        TrackData(1, MultiOsc(<<0>>), 2, 0, GraphSingle)>>)

\* ProjBase with a second oscillator on track 0.
ProjOsc ==
    MkProject("base", <<TrackData(0, MultiOsc(<<0, 12>>), 2, 0, GraphLoop),
                        TrackData(1, MultiOsc(<<0>>), 2, 0, GraphSingle)>>)

\* A one-track project.
ProjOneTrack ==
    MkProject("solo", <<TrackData(0, MultiOsc(<<0>>), 2, 0, GraphLoop)>>)

\* Projects the loader can read from disk / the editor can send for reload.
DiskProjects == {ProjBase}
ReloadProjects == {ProjVolPan, ProjPattern, ProjOsc, ProjOneTrack}

\* The MIDI pitches that occur (the source's table has 128 slots).
Pitches == {60, 62, 64}

\* ------------------------------------------------ f32 (beats, envelope time)
RECURSIVE Pow2(_)
Pow2(n) == IF n = 0 THEN 1 ELSE 2 * Pow2(n - 1)

\* The spacing of the representable values at x >= 0, in units of the
\* finest spacing q: a significand holds MantissaBits bits.
RECURSIVE Ulp(_, _)
Ulp(x, q) == IF x < q * Pow2(MantissaBits) THEN q ELSE Ulp(x, 2 * q)

\* Round to nearest representable value, ties to even.
RoundF32(x) ==
    LET q == Ulp(x, 1)
        lo == (x \div q) * q
        r == x - lo
    IN  IF 2 * r < q THEN lo
        ELSE IF 2 * r > q THEN lo + q
        ELSE IF (lo \div q) % 2 = 0 THEN lo ELSE lo + q

\* f32 addition (`*time += dt`): the exact sum, rounded.
F32Add(a, b) == RoundF32(a + b)

\* f32 subtraction: the exact difference, rounded.
F32Sub(a, b) == RoundF32(a - b)

\* ------------------------------------------------------- timing/sequence.rs
\* Sequence::duration_samples
duration_samples(sequence, bpm, sample_rate) ==
    LET beats_per_bar == sequence.time_signature[1]
        beat_unit == sequence.time_signature[2]
    IN  (beats_per_bar * sequence.duration_bars * 4 * 60 * sample_rate)
            \div (beat_unit * bpm)

\* Stable sort of a sequence of <<key, value>> pairs by key: x is inserted
\* after every element whose key is <= its own (slice::sort_by and
\* sort_by_key are stable).
RECURSIVE InsertStable(_, _)
InsertStable(s, x) ==
    IF s = <<>> THEN <<x>>
    ELSE IF Head(s)[1] <= x[1]
         THEN <<Head(s)>> \o InsertStable(Tail(s), x)
         ELSE <<x>> \o s

RECURSIVE SortStable(_)
SortStable(s) ==
    IF s = <<>> THEN <<>>
    ELSE InsertStable(SortStable(SubSeq(s, 1, Len(s) - 1)), s[Len(s)])

\* group.sort_by(|a, b| a.start_beat.partial_cmp(&b.start_beat).unwrap())
SortByStart(notes) ==
    LET keyed == [i \in 1..Len(notes) |-> <<notes[i].start_beat, notes[i]>>]
        sorted == SortStable(keyed)
    IN  [i \in 1..Len(notes) |-> sorted[i][2]]

SelectPitch(notes, p) == SelectSeq(notes, LAMBDA n : n.pitch = p)

\* The merge loop of normalize_notes over one pitch group sorted by start.
\* Beats are f32 values, here whole multiples of the finest spacing.
RECURSIVE MergeGroup(_, _)
MergeGroup(current, rest) ==
    IF rest = <<>> THEN <<current>>
    ELSE LET note == Head(rest)
             current_end == F32Add(current.start_beat, current.duration_beats)
             note_end == F32Add(note.start_beat, note.duration_beats)
         IN  IF note.start_beat <= current_end
             THEN MergeGroup([current EXCEPT
                                 !.duration_beats =
                                     F32Sub(Max(current_end, note_end),
                                            current.start_beat),
                                 !.velocity = Max(current.velocity, note.velocity)],
                             Tail(rest))
             ELSE <<current>> \o MergeGroup(note, Tail(rest))

\* normalize_notes: group by pitch, merge each group.  The groups are
\* visited in the HashMap's iteration order, here the sequence `order` of
\* the pitches present.
RECURSIVE normalize_notes(_, _)
normalize_notes(notes, order) ==
    IF order = <<>> THEN <<>>
    ELSE LET group == SortByStart(SelectPitch(notes, Head(order)))
         IN  MergeGroup(Head(group), Tail(group))
                 \o normalize_notes(notes, Tail(order))

PitchesOf(notes) == {notes[i].pitch : i \in 1..Len(notes)}

\* All iteration orders of a set of pitches.
Orders(S) ==
    {o \in [1..Cardinality(S) -> S] : \A i, j \in 1..Cardinality(S) :
                                          i # j => o[i] # o[j]}

\* Sequence::get_notes with a script runtime present.
get_notes(sequence, order) ==
    LET evaluated == execute_pattern(sequence.function)
        notes == IF sequence.kind = "Static" THEN sequence.notes
                 ELSE IF evaluated[1] = "Ok" THEN evaluated[2] ELSE <<>>
    IN  normalize_notes(notes, order)

\* The note list get_notes normalises, whose pitches fix the possible orders.
RawNotes(sequence) ==
    IF sequence.kind = "Static" THEN sequence.notes
    ELSE IF execute_pattern(sequence.function)[1] = "Ok"
         THEN execute_pattern(sequence.function)[2] ELSE <<>>

\* ------------------------------------------------------ timing/scheduler.rs
MidiEvent(ts, track_id, kind, pitch, velocity) ==
    [sample_timestamp |-> ts, kind |-> kind, track_id |-> track_id,
     pitch |-> pitch, velocity |-> velocity]

StopAllNotes(ts, track_id) ==
    [sample_timestamp |-> ts, kind |-> "StopAllNotes", track_id |-> track_id,
     pitch |-> 0, velocity |-> 0]

\* The notes schedule_sequence_events expands: a Static pattern's notes are
\* cloned as they are, a Generated pattern's notes come from get_notes.
ScheduledNotes(sequence, order) ==
    IF sequence.kind = "Static" THEN sequence.notes
    ELSE get_notes(sequence, order)

\* Faulty variant of NoteEvents: a NoteOn exactly at the sequence end is kept.
NoteEventsOnAtEnd(note, track_id, start_sample, samples_per_beat, sequence_duration) ==
    LET note_on_sample == start_sample + note.start_beat * samples_per_beat
        note_off_sample ==
            start_sample
                + F32Add(note.start_beat, note.duration_beats) * samples_per_beat
    IN  (IF note_on_sample <= start_sample + sequence_duration
         THEN <<MidiEvent(note_on_sample, track_id, "NoteOn", note.pitch, note.velocity)>>
         ELSE <<>>)
        \o
        (IF note_off_sample <= start_sample + sequence_duration
         THEN <<MidiEvent(note_off_sample, track_id, "NoteOff", note.pitch, note.velocity)>>
         ELSE <<>>)

\* The events of one note, in push order into the local vector.
NoteEvents(note, track_id, start_sample, samples_per_beat, sequence_duration) ==
    LET note_on_sample == start_sample + note.start_beat * samples_per_beat
        note_off_sample ==
            start_sample
                + F32Add(note.start_beat, note.duration_beats) * samples_per_beat
    IN  (IF note_on_sample < start_sample + sequence_duration
         THEN <<MidiEvent(note_on_sample, track_id, "NoteOn", note.pitch, note.velocity)>>
         ELSE <<>>)
        \o
        (IF note_off_sample <= start_sample + sequence_duration
         THEN <<MidiEvent(note_off_sample, track_id, "NoteOff", note.pitch, note.velocity)>>
         ELSE <<>>)

RECURSIVE UnsortedEvents(_, _, _, _, _)
UnsortedEvents(notes, track_id, start_sample, samples_per_beat, sequence_duration) ==
    IF notes = <<>> THEN <<>>
    ELSE NoteEvents(Head(notes), track_id, start_sample, samples_per_beat,
                    sequence_duration)
         \o UnsortedEvents(Tail(notes), track_id, start_sample, samples_per_beat,
                           sequence_duration)

\* Faulty variant of SortEvents: the event vector is pushed unsorted.
SortEventsNone(events) == events

\* Faulty variant of SortEvents: an unstable sort, events of equal timestamp
\* come out in reverse order.
SortEventsTiesReversed(events) ==
    LET n == Len(events)
        keyed == [i \in 1..n |-> <<events[n + 1 - i].sample_timestamp,
                                   events[n + 1 - i]>>]
        sorted == SortStable(keyed)
    IN  [i \in 1..n |-> sorted[i][2]]

\* The position a stable sort by timestamp gives to events[i]: after the
\* events of smaller timestamp and the earlier events of equal timestamp.
SortedPosition(events, i) ==
    1 + Cardinality({j \in 1..Len(events) :
                        \/ events[j].sample_timestamp < events[i].sample_timestamp
                        \/ /\ events[j].sample_timestamp = events[i].sample_timestamp
                           /\ j < i})

\* events.sort_by_key(|e| e.sample_timestamp)
SortEvents(events) ==
    [r \in 1..Len(events) |->
        events[CHOOSE i \in 1..Len(events) : SortedPosition(events, i) = r]]

\* schedule_sequence_events up to the push loop: the sorted event vector.
schedule_sequence_events(sequence, track_id, start_sample, bpm, sample_rate, order) ==
    LET samples_per_beat == (60 * sample_rate) \div bpm
        sequence_duration == duration_samples(sequence, bpm, sample_rate)
    IN  SortEvents(UnsortedEvents(ScheduledNotes(sequence, order), track_id,
                                  start_sample, samples_per_beat, sequence_duration))

\* The push loop: events are pushed in order until the first try_push that
\* finds the ring buffer full; the events pushed before it stay.
PushUntilFull(q, events) ==
    q \o SubSeq(events, 1, Min(Len(events), QueueCap - Len(q)))

\* -------------------------------------------------- timing/state_machine.rs
RECURSIVE FindNode(_, _)
FindNode(nodes, id) ==
    IF nodes = <<>> THEN None
    ELSE IF Head(nodes).id = id THEN Some(Head(nodes))
         ELSE FindNode(Tail(nodes), id)

\* StateGraph::get_node
get_node(graph, id) == FindNode(graph.nodes, id)

\* StateGraph::get_outgoing_edges
get_outgoing_edges(graph, node_id) ==
    SelectSeq(graph.edges, LAMBDA e : e.from = node_id)

\* ---------------------------------------------------------- audio/track.rs
\* TrackConfig::new followed by the volume and pan assignments
\* (setup_audio and the ReloadProject arm build configs the same way).
TrackConfig(track_data) ==
    [id |-> track_data.id, instrument |-> track_data.instrument,
     adsr |-> track_data.adsr, volume |-> track_data.volume, pan |-> track_data.pan]

BuildConfigs(proj) ==
    [i \in 1..Len(proj.tracks) |-> TrackConfig(proj.tracks[i])]

\* TrackConfig::num_oscillators
num_oscillators(config) ==
    IF config.instrument.kind = "MultiOsc"
    THEN Len(config.instrument.oscillators) ELSE 0

\* NotePlaybackState::new (sample_position is never written and is left out)
NewNote(velocity, num_oscs) ==
    [velocity |-> velocity, envelope_state |-> "Attack", time |-> 0,
     envelope_level |-> 0, oscillator_phases |-> [i \in 1..num_oscs |-> 0]]

\* PlaybackState::new
NewPlaybackState == [p \in Pitches |-> None]

\* PlaybackState::note_on
note_on(state, pitch, velocity, num_oscs) ==
    [state EXCEPT ![pitch] = Some(NewNote(velocity, num_oscs))]

\* PlaybackState::note_off
note_off(state, pitch) ==
    IF state[pitch] = None THEN state
    ELSE [state EXCEPT ![pitch] =
             Some([state[pitch][1] EXCEPT !.envelope_state = "Release", !.time = 0])]

\* Faulty variant of stop_all: the slots are left as they are.
stop_allKeepsSlots(state) == state

\* PlaybackState::stop_all
stop_all(state) == [p \in Pitches |-> None]

\* advance_envelope_one_sample_playback; time is an f32 counted in units
\* of dt = 1 / sample_rate, so that one sample adds 1.
advance_envelope(note, adsr) ==
    LET t == F32Add(note.time, 1)
    IN  CASE note.envelope_state = "Attack" ->
                 IF t >= adsr.attack
                 THEN [note EXCEPT !.envelope_state = "Decay", !.time = 0,
                                   !.envelope_level = LevelOne]
                 ELSE [note EXCEPT !.time = t,
                                   !.envelope_level =
                                       Min((t * LevelOne) \div adsr.attack, LevelOne)]
          [] note.envelope_state = "Decay" ->
                 IF t >= adsr.decay
                 THEN [note EXCEPT !.envelope_state = "Sustain", !.time = 0,
                                   !.envelope_level = adsr.sustain]
                 ELSE [note EXCEPT !.time = t,
                                   !.envelope_level =
                                       LevelOne - ((LevelOne - adsr.sustain)
                                                    * Min(t, adsr.decay)) \div adsr.decay]
          [] note.envelope_state = "Sustain" ->
                 [note EXCEPT !.envelope_level = adsr.sustain]
          [] OTHER ->
                 [note EXCEPT !.time = t,
                              !.envelope_level =
                                  IF adsr.release = 0 THEN 0
                                  ELSE (note.envelope_level
                                        * (adsr.release - Min(t, adsr.release)))
                                       \div adsr.release]

\* The oscillator loop of render_sample: oscillator i reads and advances
\* oscillator_phases[i].
advance_phases(note, config) ==
    [note EXCEPT !.oscillator_phases =
        [i \in 1..Len(note.oscillator_phases) |->
            IF i <= num_oscillators(config)
            THEN note.oscillator_phases[i] + 1
            ELSE note.oscillator_phases[i]]]

\* render_sample indexes oscillator_phases[i] for every oscillator of the
\* instrument: an index past the note's vector is a panic.
IndexPanics(state, config) ==
    \E p \in Pitches :
        /\ state[p] # None
        /\ num_oscillators(config) > Len(state[p][1].oscillator_phases)

\* PlaybackState::render_sample: the state after one sample.
render_sample(state, config) ==
    [p \in Pitches |->
        IF state[p] = None THEN None
        ELSE LET note == advance_envelope(advance_phases(state[p][1], config),
                                          config.adsr)
             IN  IF note.envelope_state = "Release" /\ note.time > config.adsr.release
                 THEN None ELSE Some(note)]

\* ---------------------------------------------------------------- engine.rs
\* process_event (track ids are 0-based, sequences 1-based)
process_event(states, configs, ev) ==
    IF ev.track_id >= Len(states) THEN states
    ELSE LET i == ev.track_id + 1
         IN  CASE ev.kind = "NoteOn" ->
                      LET num_oscs == IF i <= Len(configs)
                                      THEN num_oscillators(configs[i]) ELSE 0
                      IN  [states EXCEPT ![i] = note_on(@, ev.pitch, ev.velocity, num_oscs)]
               [] ev.kind = "NoteOff" ->
                      [states EXCEPT ![i] = note_off(@, ev.pitch)]
               [] OTHER ->
                      [states EXCEPT ![i] = stop_all(@)]

\* render_frame: states.iter_mut().zip(configs.iter())
render_frame(states, configs) ==
    [i \in 1..Len(states) |->
        IF i <= Len(configs) THEN render_sample(states[i], configs[i])
        ELSE states[i]]

\* calculate_envelope_from_playback (levels scaled by LevelOne)
calculate_envelope(note, adsr) ==
    CASE note.envelope_state = "Attack" ->
             IF adsr.attack = 0 THEN LevelOne
             ELSE Min((note.time * LevelOne) \div adsr.attack, LevelOne)
      [] note.envelope_state = "Decay" ->
             LevelOne - (IF adsr.decay = 0 THEN LevelOne - adsr.sustain
                         ELSE ((LevelOne - adsr.sustain) * Min(note.time, adsr.decay))
                              \div adsr.decay)
      [] note.envelope_state = "Sustain" -> adsr.sustain
      [] OTHER ->
             IF adsr.release = 0 THEN 0
             ELSE (note.envelope_level
                   * (adsr.release - Min(note.time, adsr.release))) \div adsr.release

RECURSIVE SumFn(_, _)
SumFn(f, S) ==
    IF S = {} THEN 0
    ELSE LET x == CHOOSE y \in S : TRUE IN f[x] + SumFn(f, S \ {x})

\* The output of render_sample: every oscillator of every occupied slot
\* adds sample * envelope * velocity_scale * gain.  The model keeps the
\* magnitude of the sum for oscillators of one sign and unit magnitude
\* (square waves in the same half-period), velocity and gain left out as
\* positive factors: it is 0 exactly when every term is 0.
sample_output(state, config) ==
    SumFn([p \in Pitches |->
              IF state[p] = None THEN 0
              ELSE calculate_envelope(state[p][1], config.adsr)
                   * num_oscillators(config)],
          Pitches)

\* The frame render_frame adds into the zeroed buffer: per track
\* sample * gain * volume (the pan gain is left out as a positive factor).
frame_output(states, configs) ==
    SumFn([i \in 1..Min(Len(states), Len(configs)) |->
              sample_output(states[i], configs[i]) * configs[i].volume],
          1..Min(Len(states), Len(configs)))

RenderPanics(states, configs) ==
    \E i \in 1..Min(Len(states), Len(configs)) : IndexPanics(states[i], configs[i])

\* i8 and u8 arithmetic of `(pitch as i8 + osc.semitone) as u8`.
I8Min == -128
I8Max == 127
U8Range == 256

\* The i8 addition overflows: a build with overflow checks panics on it, a
\* build without them wraps.
add_overflows(a, b) == a + b > I8Max \/ a + b < I8Min

wrapping_add(a, b) == ((a + b - I8Min) % U8Range) + I8Min

\* `x as u8` of an i8: the value modulo 2^8.
as_u8(x) == x % U8Range

\* The note render_sample passes to midi_to_freq for an oscillator, when
\* the addition has not panicked.
osc_note(pitch, semitone) == as_u8(wrapping_add(pitch, semitone))

\* Some occupied slot and oscillator of a rendered track overflow the i8
\* addition.
AddOverflows(states, configs) ==
    \E i \in 1..Min(Len(states), Len(configs)) :
        \E p \in Pitches, k \in 1..num_oscillators(configs[i]) :
            /\ states[i][p] # None
            /\ add_overflows(p, configs[i].instrument.oscillators[k])

\* Faulty variant of Drain: the event at or past buffer_end is popped and
\* dropped instead of being kept as the pending event.
RECURSIVE DrainDropsLate(_, _, _, _)
DrainDropsLate(q, pending, events, buffer_end) ==
    IF pending # None \/ q = <<>> THEN <<q, pending, events>>
    ELSE IF Head(q).sample_timestamp < buffer_end
         THEN DrainDropsLate(Tail(q), pending, Append(events, Head(q)), buffer_end)
         ELSE <<Tail(q), None, events>>

\* The drain of audio_callback: pop while nothing is pending; an event at or
\* past buffer_end becomes the pending event.  Result:
\* <<queue left, pending event, events of this buffer>>.
RECURSIVE Drain(_, _, _, _)
Drain(q, pending, events, buffer_end) ==
    IF pending # None \/ q = <<>> THEN <<q, pending, events>>
    ELSE IF Head(q).sample_timestamp < buffer_end
         THEN Drain(Tail(q), pending, Append(events, Head(q)), buffer_end)
         ELSE <<Tail(q), Some(Head(q)), events>>

\* Faulty variant of EventFrame: every event of the buffer is due at its
\* first frame.
EventFrameFirst(ev, current_sample) == 0

\* event_frame = sample_timestamp.saturating_sub(current_sample)
EventFrame(ev, current_sample) ==
    IF ev.sample_timestamp >= current_sample
    THEN ev.sample_timestamp - current_sample ELSE 0

\* ------------------------------------------------------------------- state
VARIABLES
    \* EngineState (engine_thread)
    project,          \* Option<Project>
    track_configs,    \* Option of the ArcSwap's current Vec<TrackConfig>
    sample_counter,   \* Option of the handle on the session's counter
    audio_stream,     \* Option<cpal::Stream>
    playing,
    updates,          \* EngineUpdates sent on update_tx, oldest first
    cmds,             \* commands received since the initial state
    workers,          \* timing threads spawned and still running
    \* shared between the threads of the current session
    counter,          \* value of the AtomicU64
    queue,            \* ring buffer contents, oldest first
    \* scheduler worker (timing_thread)
    timing_state,     \* TimingState
    worker,           \* position and locals of the worker's loop
    \* audio thread (audio_callback)
    audio_state,      \* AudioState: playback_states, pending_event
    callback,         \* position and locals of the running callback
    \* history (not program state)
    emitted,          \* events pushed into the queue, in push order
    transitions,      \* boundaries the worker has processed
    applied,          \* events applied by process_event, with the frame's sample
    last_expansion,   \* the worker's last expansion since the last reload
    aborted,          \* pushes of the scheduler the full ring buffer refused
    paused_output,    \* amplitudes of the frames written since the last Pause
                      \* and before the next Play
    used_configs,     \* <<snapshot used, snapshot then published>> of every
                      \* frame of the running callback
    \* examples/live_dsp (a program of its own)
    live_dsp          \* its file, its published AudioGraph, its position

engineVars == <<project, track_configs, sample_counter, audio_stream, playing,
                updates, cmds, workers>>
sharedVars == <<counter, queue>>
timingVars == <<timing_state, worker>>
audioVars == <<audio_state, callback>>
historyVars == <<emitted, transitions, applied, last_expansion, aborted, paused_output,
                 used_configs>>
vars == <<engineVars, sharedVars, timingVars, audioVars, historyVars, live_dsp>>

NoTimingState == [graphs |-> <<>>, current_nodes |-> <<>>, sequence_end_samples |-> <<>>]
NoWorker == [pc |-> "none", current_sample |-> 0, track_id |-> 0, pushbuf |-> <<>>,
             pushed |-> 0, bpm |-> 0, sample_rate |-> 0]
NoAudioState == [playback_states |-> <<>>, pending_event |-> None]
\* The live_dsp example is not running.
NoLiveDsp == [pc |-> "none"]

IdleCallback == [pc |-> "idle", current_sample |-> 0, num_frames |-> 0, frame |-> 0,
                 events |-> <<>>, configs |-> <<>>, data |-> <<>>,
                 carried |-> None]

\* u64::MAX, the sequence end of a track whose initial node is missing.
U64Max == 2147483647

Init ==
    /\ project = None
    /\ track_configs = None
    /\ sample_counter = None
    /\ audio_stream = None
    /\ playing = FALSE
    /\ updates = <<>>
    /\ cmds = 0
    /\ workers = 0
    /\ counter = 0
    /\ queue = <<>>
    /\ timing_state = NoTimingState
    /\ worker = NoWorker
    /\ audio_state = NoAudioState
    /\ callback = IdleCallback
    /\ emitted = <<>>
    /\ transitions = <<>>
    /\ applied = <<>>
    /\ last_expansion = None
    /\ aborted = <<>>
    /\ paused_output = <<>>
    /\ used_configs = {}
    /\ live_dsp = NoLiveDsp

Update(type, arg) == [type |-> type, arg |-> arg]

\* The first sample of the next buffer the audio callback will start.
NextBufferStart ==
    IF callback.pc = "frames" THEN callback.current_sample + callback.num_frames
    ELSE counter

\* A queue entry: the event, and (history) whether it is pushed before the
\* start of the buffer that contains its timestamp, that is, whether its
\* timestamp is not before next_start, the start of the next buffer.
Entry(ev, next_start) ==
    [sample_timestamp |-> ev.sample_timestamp, kind |-> ev.kind,
     track_id |-> ev.track_id, pitch |-> ev.pitch, velocity |-> ev.velocity,
     early |-> ev.sample_timestamp >= next_start]

Entries(events, next_start) ==
    [i \in 1..Len(events) |-> Entry(events[i], next_start)]

\* Dropping the cpal stream ends the audio thread and drops the AudioState
\* the callback closure owns.  The host serialises the drop with a running
\* callback, so the stream is dropped between callbacks.
StreamIdle == callback.pc # "frames"

DropStream ==
    /\ audio_stream' = None
    /\ audio_state' = NoAudioState
    /\ callback' = IdleCallback
    /\ used_configs' = {}

\* ------------------------------------------------------------ engine_thread
\* Faulty variant of CmdLoadProject: a failing load also stops the playback.
CmdLoadProjectStopOnError(ok, p) ==
    /\ UNCHANGED live_dsp
    /\ cmds < MaxCmds
    /\ StreamIdle
    /\ cmds' = cmds + 1
    /\ DropStream
    /\ playing' = FALSE
    /\ IF ok
       THEN /\ updates' = Append(updates, Update("ProjectLoaded", p))
            /\ project' = Some(p)
            /\ last_expansion' = None
       ELSE /\ updates' = Append(updates, Update("Error", "Failed to load project"))
            /\ UNCHANGED <<project, last_expansion>>
    /\ UNCHANGED <<track_configs, sample_counter, workers, sharedVars, timingVars,
                   emitted, transitions, applied, aborted, paused_output>>

\* Faulty variant of CmdLoadProject: a successful load keeps the stream.
CmdLoadProjectKeepStream(ok, p) ==
    /\ UNCHANGED live_dsp
    /\ cmds < MaxCmds
    /\ cmds' = cmds + 1
    /\ IF ok
       THEN /\ updates' = Append(updates, Update("ProjectLoaded", p))
            /\ project' = Some(p)
            /\ last_expansion' = None
            /\ UNCHANGED <<audio_stream, playing, audioVars, used_configs>>
       ELSE /\ updates' = Append(updates, Update("Error", "Failed to load project"))
            /\ UNCHANGED <<project, audio_stream, playing, audioVars, used_configs,
                           last_expansion>>
    /\ UNCHANGED <<track_configs, sample_counter, workers, sharedVars, timingVars,
                   emitted, transitions, applied, aborted, paused_output>>

\* EngineCommand::LoadProject with Project::load returning Ok(p) or Err.
CmdLoadProject(ok, p) ==
    /\ UNCHANGED live_dsp
    /\ cmds < MaxCmds
    /\ ok => StreamIdle
    /\ cmds' = cmds + 1
    /\ IF ok
       THEN /\ DropStream
            /\ playing' = FALSE
            /\ updates' = Append(updates, Update("ProjectLoaded", p))
            /\ project' = Some(p)
            /\ last_expansion' = None
       ELSE /\ updates' = Append(updates, Update("Error", "Failed to load project"))
            /\ UNCHANGED <<project, audio_stream, playing, audioVars, used_configs,
                           last_expansion>>
    /\ UNCHANGED <<track_configs, sample_counter, workers, sharedVars, timingVars,
                   emitted, transitions, applied, aborted, paused_output>>

\* Faulty variant of CmdReloadProject: the reload also rebuilds the playback states.
CmdReloadProjectFresh(p) ==
    /\ UNCHANGED live_dsp
    /\ cmds < MaxCmds
    /\ cmds' = cmds + 1
    /\ track_configs' = IF track_configs # None THEN Some(BuildConfigs(p))
                        ELSE track_configs
    /\ project' = Some(p)
    /\ last_expansion' = None
    /\ audio_state' = [audio_state EXCEPT
                          !.playback_states =
                              [i \in 1..Len(@) |-> [q \in Pitches |-> None]]]
    /\ UNCHANGED <<sample_counter, audio_stream, playing, updates, workers,
                   sharedVars, timingVars, callback, emitted, transitions, applied,
                   aborted, paused_output, used_configs>>

\* EngineCommand::ReloadProject
CmdReloadProject(p) ==
    /\ UNCHANGED live_dsp
    /\ cmds < MaxCmds
    /\ cmds' = cmds + 1
    /\ track_configs' = IF track_configs # None THEN Some(BuildConfigs(p))
                        ELSE track_configs
    /\ project' = Some(p)
    /\ last_expansion' = None
    /\ UNCHANGED <<sample_counter, audio_stream, playing, updates, workers,
                   sharedVars, timingVars, audioVars, emitted, transitions, applied,
                   aborted, paused_output, used_configs>>

\* The orders in which normalize_notes may visit the pitch groups of a sequence.
OrdersOf(sequence) ==
    IF sequence.kind = "Static" THEN {<<>>}
    ELSE Orders(PitchesOf(RawNotes(sequence)))

\* setup_audio, lines 231-252: the initial expansion of every track, pushed
\* track after track into the fresh ring buffer.
RECURSIVE InitialQueue(_, _, _, _)
InitialQueue(proj, orders, i, q) ==
    IF i > Len(proj.tracks) THEN q
    ELSE LET track == proj.tracks[i]
             node == get_node(track.graph, track.initial_node)
         IN  IF node = None THEN InitialQueue(proj, orders, i + 1, q)
             ELSE InitialQueue(proj, orders, i + 1,
                      PushUntilFull(q, Entries(schedule_sequence_events(
                          node[1].sequence, i - 1, 0, proj.bpm, proj.sample_rate,
                          orders[i]), 0)))

\* A push the full ring buffer refused: the StopAllNotes of a boundary
\* (kind "stop") or an event of an expansion (kind "expansion", which makes
\* schedule_sequence_events return BufferFull).  `pushed` counts the events
\* of the expansion pushed before, `in_queue` those of them still queued.
Abort(kind, track_id, start_sample, pushed, in_queue) ==
    [kind |-> kind, track_id |-> track_id, start_sample |-> start_sample,
     pushed |-> pushed, in_queue |-> in_queue]

\* The initial expansions of setup_audio that returned BufferFull.
RECURSIVE InitialAborted(_, _, _, _)
InitialAborted(proj, orders, i, q) ==
    IF i > Len(proj.tracks) THEN <<>>
    ELSE LET track == proj.tracks[i]
             node == get_node(track.graph, track.initial_node)
             events == schedule_sequence_events(node[1].sequence, i - 1, 0, proj.bpm,
                                                proj.sample_rate, orders[i])
             room == QueueCap - Len(q)
         IN  IF node = None THEN InitialAborted(proj, orders, i + 1, q)
             ELSE (IF Len(events) > room
                   THEN <<Abort("expansion", i - 1, 0, room, room)>> ELSE <<>>)
                  \o InitialAborted(proj, orders, i + 1,
                                    PushUntilFull(q, Entries(events, 0)))

InitialEnds(proj) ==
    [i \in 1..Len(proj.tracks) |->
        LET node == get_node(proj.tracks[i].graph, proj.tracks[i].initial_node)
        IN  IF node = None THEN U64Max
            ELSE duration_samples(node[1].sequence, proj.bpm, proj.sample_rate)]

InitialOrders(proj) ==
    {o \in [1..Len(proj.tracks) -> UNION {Orders(S) : S \in SUBSET Pitches}] :
        \A i \in 1..Len(proj.tracks) :
            LET node == get_node(proj.tracks[i].graph, proj.tracks[i].initial_node)
            IN  o[i] \in (IF node = None THEN {<<>>} ELSE OrdersOf(node[1].sequence))}

\* The Play arm when no stream exists and setup_audio returns Ok: a new
\* session (configs, counter, queue, worker, stream) replaces the old one.
PlayStart(proj, orders) ==
    /\ track_configs' = Some(BuildConfigs(proj))
    /\ sample_counter' = Some("counter")
    /\ audio_stream' = Some("stream")
    /\ playing' = TRUE
    /\ updates' = Append(updates, Update("PlaybackState", TRUE))
    /\ workers' = workers + 1
    /\ counter' = 0
    /\ queue' = InitialQueue(proj, orders, 1, <<>>)
    /\ timing_state' =
          [graphs |-> [i \in 1..Len(proj.tracks) |-> proj.tracks[i].graph],
           current_nodes |-> [i \in 1..Len(proj.tracks) |-> proj.tracks[i].initial_node],
           sequence_end_samples |-> InitialEnds(proj)]
    /\ worker' = [pc |-> "load", current_sample |-> 0, track_id |-> 0,
                  pushbuf |-> <<>>, pushed |-> 0, bpm |-> proj.bpm,
                  sample_rate |-> proj.sample_rate]
    /\ audio_state' = [playback_states |-> [i \in 1..Len(proj.tracks) |-> NewPlaybackState],
                       pending_event |-> None]
    /\ callback' = IdleCallback
    /\ emitted' = queue'
    /\ transitions' = <<>>
    /\ applied' = <<>>
    /\ last_expansion' = None
    /\ aborted' = InitialAborted(proj, orders, 1, <<>>)
    /\ paused_output' = <<>>
    /\ used_configs' = {}
    /\ UNCHANGED project

\* Faulty variant of PlayDeviceError: the playing flag is set before the
\* device is opened and stays set when opening fails.
PlayDeviceErrorPlaying ==
    /\ workers' = workers + 1
    /\ playing' = TRUE
    /\ updates' = Append(updates, Update("Error", "Failed to start audio"))
    /\ UNCHANGED <<project, track_configs, sample_counter, audio_stream,
                   sharedVars, timingVars, audioVars, historyVars>>

\* The Play arm when no stream exists and the output device cannot be
\* opened: setup_audio has already spawned its timing thread (line 257)
\* when it returns Err (lines 268-305).  That thread runs on a counter no
\* callback advances; the model keeps the previous session's worker in detail.
PlayDeviceError ==
    /\ workers' = workers + 1
    /\ updates' = Append(updates, Update("Error", "Failed to start audio"))
    /\ UNCHANGED <<project, track_configs, sample_counter, audio_stream, playing,
                   sharedVars, timingVars, audioVars, historyVars>>

\* Faulty variant of PlayResume: resuming restarts the clock.
PlayResumeRestart ==
    /\ playing' = TRUE
    /\ updates' = Append(updates, Update("PlaybackState", TRUE))
    /\ counter' = 0
    /\ paused_output' = <<>>
    /\ UNCHANGED <<project, track_configs, sample_counter, audio_stream, workers,
                   queue, timingVars, audioVars, emitted, transitions, applied,
                   last_expansion, aborted, used_configs>>

\* Faulty variant of PlayResume: Play on an open stream spawns another
\* scheduler worker.
PlayResumeRespawn ==
    /\ playing' = TRUE
    /\ updates' = Append(updates, Update("PlaybackState", TRUE))
    /\ workers' = workers + 1
    /\ paused_output' = <<>>
    /\ UNCHANGED <<project, track_configs, sample_counter, audio_stream,
                   sharedVars, timingVars, audioVars, emitted, transitions, applied,
                   last_expansion, aborted, used_configs>>

\* The Play arm when a stream exists.
PlayResume ==
    /\ playing' = TRUE
    /\ updates' = Append(updates, Update("PlaybackState", TRUE))
    /\ paused_output' = <<>>
    /\ UNCHANGED <<project, track_configs, sample_counter, audio_stream, workers,
                   sharedVars, timingVars, audioVars, emitted, transitions, applied,
                   last_expansion, aborted, used_configs>>

\* EngineCommand::Play
CmdPlay(device_ok) ==
    /\ UNCHANGED live_dsp
    /\ cmds < MaxCmds
    /\ cmds' = cmds + 1
    /\ IF project = None
       THEN UNCHANGED <<project, track_configs, sample_counter, audio_stream, playing,
                        updates, workers, sharedVars, timingVars, audioVars,
                        historyVars>>
       ELSE IF audio_stream = None
            THEN IF device_ok
                 THEN \E orders \in InitialOrders(project[1]) :
                          PlayStart(project[1], orders)
                 ELSE PlayDeviceError
            ELSE PlayResume

\* EngineCommand::Pause
CmdPause ==
    /\ UNCHANGED live_dsp
    /\ cmds < MaxCmds
    /\ cmds' = cmds + 1
    /\ playing' = FALSE
    /\ updates' = Append(updates, Update("PlaybackState", FALSE))
    /\ paused_output' = <<>>
    /\ UNCHANGED <<project, track_configs, sample_counter, audio_stream, workers,
                   sharedVars, timingVars, audioVars, emitted, transitions, applied,
                   last_expansion, aborted, used_configs>>

\* Faulty variant of CmdStop: Stop only clears the playing flag.
CmdStopSoft ==
    /\ UNCHANGED live_dsp
    /\ cmds < MaxCmds
    /\ cmds' = cmds + 1
    /\ playing' = FALSE
    /\ updates' = updates \o <<Update("PlaybackState", FALSE),
                               Update("CurrentNodes", <<>>)>>
    /\ UNCHANGED <<project, track_configs, sample_counter, audio_stream, workers,
                   sharedVars, timingVars, audioVars, historyVars>>

\* EngineCommand::Stop
CmdStop ==
    /\ UNCHANGED live_dsp
    /\ cmds < MaxCmds
    /\ StreamIdle
    /\ cmds' = cmds + 1
    /\ DropStream
    /\ track_configs' = None
    /\ sample_counter' = None
    /\ playing' = FALSE
    /\ updates' = updates \o <<Update("PlaybackState", FALSE),
                               Update("CurrentNodes", <<>>)>>
    /\ UNCHANGED <<project, workers, sharedVars, timingVars, emitted, transitions,
                   applied, last_expansion, aborted, paused_output>>

\* ------------------------------------------------------------ timing_thread
\* Faulty variant of BoundaryReached: the boundary is taken one sample ahead.
BoundaryReachedAhead(current_sample, end_sample) == current_sample + 1 >= end_sample

\* if current_sample >= end_sample
BoundaryReached(current_sample, end_sample) == current_sample >= end_sample

\* Track indices (1-based) after `from` whose sequence has ended at
\* current_sample.
DueTracks(current_sample, from) ==
    {i \in 1..Len(timing_state.graphs) :
        /\ i > from
        /\ BoundaryReached(current_sample, timing_state.sequence_end_samples[i])}

SetMin(S) == CHOOSE x \in S : \A y \in S : x <= y

\* The loop head: load the counter and walk the tracks up to the first one
\* whose sequence has ended (an iteration that finds none changes nothing).
TimingLoad ==
    /\ UNCHANGED live_dsp
    /\ worker.pc = "load"
    /\ Len(transitions) < MaxTransitions
    /\ DueTracks(counter, 0) # {}
    /\ worker' = [worker EXCEPT !.pc = "track", !.current_sample = counter,
                                !.track_id = SetMin(DueTracks(counter, 0)) - 1]
    /\ UNCHANGED <<engineVars, sharedVars, timing_state, audioVars, historyVars>>

\* Faulty variant of NextNode: the first outgoing edge whose condition is true.
NextNodeByCondition(graph, current_node) ==
    LET edges == SelectSeq(get_outgoing_edges(graph, current_node),
                           LAMBDA e : e.condition = "true")
    IN  IF edges # <<>> THEN Head(edges).to ELSE current_node

\* let next_node = if let Some(edge) = edges.first() { edge.to } else { current }
NextNode(graph, current_node) ==
    LET edges == get_outgoing_edges(graph, current_node)
    IN  IF edges # <<>> THEN Head(edges).to ELSE current_node

\* The walk to the next track of the for loop whose sequence has ended, or
\* back to the loop head.
WorkerAfter(w, i) ==
    IF DueTracks(w.current_sample, i) = {}
    THEN [w EXCEPT !.pc = "load", !.pushbuf = <<>>, !.pushed = 0]
    ELSE [w EXCEPT !.pc = "track", !.pushbuf = <<>>, !.pushed = 0,
                   !.track_id = SetMin(DueTracks(w.current_sample, i)) - 1]

\* state.sequence_end_samples[track_id] = current_sample + duration
FinishedTimingState(ts, i, current_sample) ==
    LET node == get_node(ts.graphs[i], ts.current_nodes[i])
    IN  [ts EXCEPT !.sequence_end_samples[i] =
            current_sample + duration_samples(node[1].sequence, worker.bpm,
                                              worker.sample_rate)]

\* Faulty variant of ExpansionStart: the expansion starts at the theoretical end sample.
ExpansionStartAtEnd(current_sample, end_sample) == end_sample

\* The start_sample argument of the expansion at a boundary (line 350).
ExpansionStart(current_sample, end_sample) == current_sample

\* The body of the for loop for a track whose sequence has ended, up to the
\* sort of schedule_sequence_events: the StopAllNotes push (its result is
\* ignored), the move to the next node, the expansion of its pattern.
TimingTransition ==
    /\ UNCHANGED live_dsp
    /\ worker.pc = "track"
    /\ LET i == worker.track_id + 1
           current_sample == worker.current_sample
           end_sample == timing_state.sequence_end_samples[i]
           graph == timing_state.graphs[i]
           current_node == timing_state.current_nodes[i]
           next_node == NextNode(graph, current_node)
           stop == Entry(StopAllNotes(current_sample, worker.track_id),
                         NextBufferStart)
           pushed == Len(queue) < QueueCap
           node == get_node(graph, next_node)
           start_sample == ExpansionStart(current_sample, end_sample)
           moved == [timing_state EXCEPT !.current_nodes[i] = next_node]
       IN  /\ queue' = IF pushed THEN Append(queue, stop) ELSE queue
           /\ emitted' = IF pushed THEN Append(emitted, stop) ELSE emitted
           /\ transitions' = Append(transitions,
                  [track_id |-> worker.track_id, from |-> current_node,
                   to |-> next_node, end_sample |-> end_sample,
                   stop_pushed |-> pushed,
                   stop_timestamp |-> stop.sample_timestamp,
                   observed |-> current_sample,
                   expanded |-> node # None,
                   start_sample |-> start_sample,
                   events |-> IF node = None THEN 0
                              ELSE Len(schedule_sequence_events(
                                       node[1].sequence, worker.track_id, start_sample,
                                       worker.bpm, worker.sample_rate,
                                       CHOOSE o \in OrdersOf(node[1].sequence) : TRUE))])
           /\ aborted' = IF pushed THEN aborted
                         ELSE Append(aborted, Abort("stop", worker.track_id,
                                                    current_sample, 0, 0))
           /\ IF node = None
              THEN /\ timing_state' = moved
                   /\ worker' = WorkerAfter(worker, i)
                   /\ UNCHANGED last_expansion
              ELSE \E order \in OrdersOf(node[1].sequence) :
                     LET events == schedule_sequence_events(node[1].sequence,
                                       worker.track_id, start_sample, worker.bpm,
                                       worker.sample_rate, order)
                     IN  /\ last_expansion' =
                                Some([track_id |-> worker.track_id, node_id |-> next_node,
                                      sequence |-> node[1].sequence])
                         /\ IF events = <<>>
                            THEN /\ timing_state' =
                                        FinishedTimingState(moved, i, current_sample)
                                 /\ worker' = WorkerAfter(worker, i)
                            ELSE /\ timing_state' = moved
                                 /\ worker' = [worker EXCEPT !.pc = "push",
                                                             !.pushbuf = events,
                                                             !.pushed = 0]
    /\ UNCHANGED <<engineVars, counter, audioVars, applied, paused_output,
                   used_configs>>

\* One iteration of the push loop of schedule_sequence_events; after the
\* last push, or the first failed one (BufferFull, ignored by the caller),
\* the sequence end of the track is set.
TimingPush ==
    /\ UNCHANGED live_dsp
    /\ worker.pc = "push"
    /\ LET i == worker.track_id + 1
           entry == Entry(Head(worker.pushbuf), NextBufferStart)
           pushed == Len(queue) < QueueCap
           rest == IF pushed THEN Tail(worker.pushbuf) ELSE <<>>
       IN  /\ queue' = IF pushed THEN Append(queue, entry) ELSE queue
           /\ emitted' = IF pushed THEN Append(emitted, entry) ELSE emitted
           /\ aborted' = IF pushed THEN aborted
                         ELSE Append(aborted,
                                     Abort("expansion", worker.track_id,
                                           worker.current_sample, worker.pushed,
                                           Min(worker.pushed, Len(queue))))
           /\ IF rest = <<>>
              THEN /\ timing_state' =
                          FinishedTimingState(timing_state, i, worker.current_sample)
                   /\ worker' = WorkerAfter(worker, i)
              ELSE /\ worker' = [worker EXCEPT !.pushbuf = rest, !.pushed = @ + 1]
                   /\ UNCHANGED timing_state
    /\ UNCHANGED <<engineVars, counter, audioVars, transitions, applied,
                   last_expansion, paused_output, used_configs>>

\* ----------------------------------------------------------- audio_callback
\* Faulty variant of FrameConfigs: every frame reads the published snapshot anew.
FrameConfigsLive == track_configs[1]

\* The snapshot a frame of the running callback works against: the guard
\* loaded once at the top of the callback.
FrameConfigs == callback.configs

\* Faulty variant of CounterAfter: the counter advances by the interleaved sample
\* count of a stereo buffer instead of its frame count.
CounterAfterSamples(value, num_frames) == value + 2 * num_frames

\* Faulty variant of CounterAfter: the counter is frozen while the engine is
\* not playing.
CounterAfterGated(value, num_frames) ==
    IF playing THEN value + num_frames ELSE value

\* The value fetch_add leaves in the counter after a callback of num_frames.
CounterAfter(value, num_frames) == value + num_frames

\* The top of audio_callback for a buffer of num_frames frames: load the
\* counter and the config snapshot, take the pending event if it is due,
\* drain the queue, sort.  (carried is history: the pending event taken.)
AudioBegin(num_frames) ==
    /\ UNCHANGED live_dsp
    /\ audio_stream # None
    /\ callback.pc = "idle"
    /\ counter + num_frames <= MaxClock
    /\ LET current_sample == counter
           buffer_end == current_sample + num_frames
           pending == audio_state.pending_event
           due == pending # None /\ pending[1].sample_timestamp < buffer_end
           drained == Drain(queue, IF due THEN None ELSE pending,
                            IF due THEN pending ELSE <<>>, buffer_end)
       IN  /\ queue' = drained[1]
           /\ audio_state' = [audio_state EXCEPT !.pending_event = drained[2]]
           /\ callback' = [pc |-> "frames", current_sample |-> current_sample,
                           num_frames |-> num_frames, frame |-> 0,
                           events |-> SortEvents(drained[3]),
                           configs |-> track_configs[1],
                           data |-> [k \in 1..num_frames |-> 0],
                           carried |-> IF due THEN pending ELSE None]
    /\ used_configs' = {}
    /\ UNCHANGED <<engineVars, counter, timingVars, emitted, transitions, applied,
                   last_expansion, aborted, paused_output>>

\* The events at the head of `events` whose frame is not after `frame`.
RECURSIVE DueCount(_, _, _)
DueCount(events, current_sample, frame) ==
    IF events = <<>> \/ EventFrame(Head(events), current_sample) > frame THEN 0
    ELSE 1 + DueCount(Tail(events), current_sample, frame)

RECURSIVE ProcessAll(_, _, _)
ProcessAll(states, configs, events) ==
    IF events = <<>> THEN states
    ELSE ProcessAll(process_event(states, configs, Head(events)), configs, Tail(events))

\* One iteration of the frame loop: apply the events due at this frame,
\* render the frame.  A panic inside render_sample ends the audio thread;
\* whether an overflowing addition panics depends on the build
\* (overflow_checks: on in the dev profile, off in the release profile).
AudioFrame ==
    /\ UNCHANGED live_dsp
    /\ callback.pc = "frames"
    /\ callback.frame < callback.num_frames
    /\ LET n == DueCount(callback.events, callback.current_sample, callback.frame)
           due == SubSeq(callback.events, 1, n)
           configs == FrameConfigs
           states == ProcessAll(audio_state.playback_states, configs, due)
           at == callback.current_sample + callback.frame
           output == frame_output(states, configs)
       IN  /\ applied' = applied \o [k \in 1..n |-> [event |-> due[k], at |-> at]]
           /\ used_configs' = used_configs \cup {<<configs, track_configs[1]>>}
           /\ \E overflow_checks \in BOOLEAN :
              IF \/ RenderPanics(states, configs)
                 \/ overflow_checks /\ AddOverflows(states, configs)
              THEN /\ audio_state' = [audio_state EXCEPT !.playback_states = states]
                   /\ callback' = [callback EXCEPT !.pc = "panicked"]
                   /\ UNCHANGED paused_output
              ELSE /\ audio_state' = [audio_state EXCEPT
                                         !.playback_states = render_frame(states, configs)]
                   /\ callback' = [callback EXCEPT
                                      !.frame = @ + 1,
                                      !.events = SubSeq(@, n + 1, Len(@)),
                                      !.data[callback.frame + 1] = output]
                   /\ paused_output' = IF playing THEN paused_output
                                       ELSE Append(paused_output, output)
    /\ UNCHANGED <<engineVars, sharedVars, timingVars, emitted, transitions,
                   last_expansion, aborted>>

\* sample_counter.fetch_add(num_frames)
AudioEnd ==
    /\ UNCHANGED live_dsp
    /\ callback.pc = "frames"
    /\ callback.frame = callback.num_frames
    /\ counter' = CounterAfter(counter, callback.num_frames)
    /\ callback' = IdleCallback
    /\ used_configs' = {}
    /\ UNCHANGED <<engineVars, queue, timingVars, audio_state, emitted, transitions,
                   applied, last_expansion, aborted, paused_output>>

\* -------------------------------------------------------------------- Next
Next ==
    \/ \E ok \in BOOLEAN, p \in DiskProjects : CmdLoadProject(ok, p)
    \/ \E p \in ReloadProjects : CmdReloadProject(p)
    \/ \E device_ok \in BOOLEAN : CmdPlay(device_ok)
    \/ CmdPause
    \/ CmdStop
    \/ TimingLoad
    \/ TimingTransition
    \/ TimingPush
    \/ \E n \in MinFrames..MaxFrames : AudioBegin(n)
    \/ AudioFrame
    \/ AudioEnd

Spec == Init /\ [][Next]_vars

\* The steps of the scheduler worker.  The thread is never blocked (its loop
\* takes no lock and does not sleep), so a step it can take is eventually
\* taken.  An iteration of its loop that finds no sequence ended changes
\* nothing and is a stuttering step.
WorkerNext == TimingLoad \/ TimingTransition \/ TimingPush

\* The host keeps invoking the callback of an open stream.
AudioNext ==
    \/ \E n \in MinFrames..MaxFrames : AudioBegin(n)
    \/ AudioFrame
    \/ AudioEnd

SpecLive == Spec /\ WF_vars(WorkerNext) /\ WF_vars(AudioNext)

\* ---------------------------------------------- further specifications
\* The engine after a successful LoadProject of p.
InitLoaded(p) ==
    /\ project = Some(p)
    /\ track_configs = None
    /\ sample_counter = None
    /\ audio_stream = None
    /\ playing = FALSE
    /\ updates = <<Update("ProjectLoaded", p)>>
    /\ cmds = 0
    /\ workers = 0
    /\ counter = 0
    /\ queue = <<>>
    /\ timing_state = NoTimingState
    /\ worker = NoWorker
    /\ audio_state = NoAudioState
    /\ callback = IdleCallback
    /\ emitted = <<>>
    /\ transitions = <<>>
    /\ applied = <<>>
    /\ last_expansion = None
    /\ aborted = <<>>
    /\ paused_output = <<>>
    /\ used_configs = {}
    /\ live_dsp = NoLiveDsp

\* Play and Pause commands only, interleaved with the worker and the audio
\* callback, on a loaded project.
InitPlayPause == InitLoaded(ProjBase)

NextPlayPause ==
    \/ \E device_ok \in BOOLEAN : CmdPlay(device_ok)
    \/ CmdPause
    \/ TimingLoad
    \/ TimingTransition
    \/ TimingPush
    \/ \E n \in MinFrames..MaxFrames : AudioBegin(n)
    \/ AudioFrame
    \/ AudioEnd

SpecPlayPause == InitPlayPause /\ [][NextPlayPause]_vars

\* Projects that exercise the scheduler: a one-beat pattern is two samples.
Short(notes) == Static(1, <<1, 4>>, notes)

GraphShortLoop ==
    [nodes |-> <<Node("A", Short(<<Note(60, 100, 0, 1)>>)),
                 Node("B", Short(<<Note(62, 100, 0, 1)>>))>>,
     edges |-> <<Edge("A", "B"), Edge("B", "A")>>]

\* One node whose pattern holds more events than the ring buffer, all of
\* them late in a long sequence.
GraphCrowd ==
    [nodes |-> <<Node("A", Static(2, <<2, 4>>,
                                  [k \in 1..QueueCap |-> Note(64, 100, 3, 1)]))>>,
     edges |-> <<>>]

ProjCrowded ==
    MkProject("crowded", <<TrackData(0, MultiOsc(<<0>>), 2, 0, GraphCrowd),
                           TrackData(1, MultiOsc(<<0>>), 2, 0, GraphShortLoop)>>)

\* The only edge of node A leads to a node the graph does not hold.
GraphDangling ==
    [nodes |-> <<Node("A", Short(<<Note(60, 100, 0, 1)>>))>>,
     edges |-> <<Edge("A", "X")>>]

\* Track 0 runs into a missing node, track 1 is a healthy cycle, track 2
\* starts on a missing node.
ProjMissing ==
    MkProject("missing",
              <<TrackData(0, MultiOsc(<<0>>), 2, 0, GraphDangling),
                TrackData(1, MultiOsc(<<0>>), 2, 0, GraphShortLoop),
                [TrackData(2, MultiOsc(<<0>>), 2, 0, GraphSingle)
                    EXCEPT !.initial_node = "Z"]>>)

\* A cycle whose node B is a Generated pattern with a failing script.
GraphFailing ==
    [nodes |-> <<Node("A", Short(<<Note(60, 100, 0, 1)>>)),
                 Node("B", Generated(1, <<1, 4>>, FailingScript))>>,
     edges |-> <<Edge("A", "B"), Edge("B", "A")>>]

ProjFailing ==
    MkProject("failing", <<TrackData(0, MultiOsc(<<0>>), 2, 0, GraphFailing)>>)

\* Node A has two outgoing edges, the first declared one with a false
\* condition; node C has none.
GraphBranch ==
    [nodes |-> <<Node("A", Short(<<Note(60, 100, 0, 1)>>)),
                 Node("B", Short(<<Note(62, 100, 0, 1)>>)),
                 Node("C", Short(<<Note(64, 100, 0, 1)>>))>>,
     edges |-> <<EdgeWhen("B", "A", "true", "Immediate"),
                 EdgeWhen("A", "C", "false", "NextBar"),
                 EdgeWhen("A", "B", "true", "Immediate")>>]

ProjBranch ==
    MkProject("branch", <<TrackData(0, MultiOsc(<<0>>), 2, 0, GraphBranch)>>)

SchedProjects == {ProjCrowded, ProjMissing, ProjFailing, ProjBranch}

\* Play on one of the scheduler projects, then the worker and the audio
\* callback.
InitSched == \E p \in SchedProjects : InitLoaded(p)

NextSched ==
    \/ \E device_ok \in BOOLEAN : CmdPlay(device_ok)
    \/ TimingLoad
    \/ TimingTransition
    \/ TimingPush
    \/ \E n \in MinFrames..MaxFrames : AudioBegin(n)
    \/ AudioFrame
    \/ AudioEnd

SpecSched == InitSched /\ [][NextSched]_vars

\* Pattern expansion on its own: a one-track project whose only node holds
\* a note list drawn from a bounded set, as a Static pattern or as the
\* result of a Generated pattern's script; Play performs the expansion.
MaxStartBeat == 2
MaxDurationBeats == 2

BenchNotes ==
    {Note(p, v, s, d) : p \in {60, 62}, v \in {80, 120},
                        s \in 0..MaxStartBeat, d \in 1..MaxDurationBeats}

BenchNoteLists ==
    {<<>>} \cup {<<a>> : a \in BenchNotes} \cup {<<a, b>> : a, b \in BenchNotes}

BenchProject(sequence) ==
    MkProject("bench",
              <<TrackData(0, MultiOsc(<<0>>), 2, 0,
                          [nodes |-> <<Node("A", sequence)>>, edges |-> <<>>])>>)

\* One bar of 4/4 holds every bench note; one bar of 2/4 ends at beat 2,
\* where bench notes may start or end, or which they may cross.
BenchSignatures == {<<4, 4>>, <<2, 4>>}

BenchProjects ==
    {BenchProject(Static(1, sig, notes)) :
        sig \in BenchSignatures, notes \in BenchNoteLists}
    \cup {BenchProject(Generated(1, sig, Script(notes))) :
              sig \in BenchSignatures, notes \in BenchNoteLists}

InitExpand == \E p \in BenchProjects : InitLoaded(p)

NextExpand == CmdPlay(TRUE)

SpecExpand == InitExpand /\ [][NextExpand]_vars

\* ------------------------------------------------------------------ claims
Timestamps(log) == [i \in 1..Len(log) |-> log[i].sample_timestamp]

NonDecreasing(s) == \A i, j \in 1..Len(s) : i < j => s[i] <= s[j]

AppliedEvents == [i \in 1..Len(applied) |-> applied[i].event]

\* C1: of two events with distinct timestamps the audio callback applies the
\* one with the smaller timestamp first, whatever tracks they belong to:
\* the timestamps of the events applied so far never decrease.
C1_AppliedInTimestampOrder == NonDecreasing(Timestamps(AppliedEvents))

\* C2: an event that is in the queue before the callback starts the buffer
\* that contains its timestamp is applied at the frame whose absolute sample
\* index equals that timestamp.
C2_EarlyEventsAppliedOnTime ==
    \A i \in 1..Len(applied) :
        applied[i].event.early => applied[i].at = applied[i].event.sample_timestamp

C4_EmissionOrderPerTrack ==
    \A i, j \in 1..Len(emitted) :
        (i < j /\ emitted[i].track_id = emitted[j].track_id)
            => emitted[i].sample_timestamp <= emitted[j].sample_timestamp

\* A track for which an initial event, then a StopAllNotes, then an event of
\* the next expansion have been pushed.
C4_Witness ==
    \E i, j, k \in 1..Len(emitted) :
        /\ i < j /\ j < k
        /\ emitted[i].track_id = emitted[j].track_id
        /\ emitted[j].track_id = emitted[k].track_id
        /\ emitted[i].kind = "NoteOff"
        /\ emitted[j].kind = "StopAllNotes"
        /\ emitted[k].kind = "NoteOn"

\* Notes of pitch p sounding at sample t according to an event list: the
\* NoteOn events up to t that no NoteOff up to t has closed.
ActiveAt(events, p, t) ==
    Cardinality({i \in 1..Len(events) :
                    /\ events[i].kind = "NoteOn" /\ events[i].pitch = p
                    /\ events[i].sample_timestamp <= t})
    - Cardinality({i \in 1..Len(events) :
                    /\ events[i].kind = "NoteOff" /\ events[i].pitch = p
                    /\ events[i].sample_timestamp <= t})

\* C5: the events of a pattern expansion, of a Static as of a Generated
\* sequence, describe at most one active note per pitch at any time.
C5_OneActiveNotePerPitch ==
    \A p \in Pitches :
        \A i \in 1..Len(emitted) : ActiveAt(emitted, p, emitted[i].sample_timestamp) <= 1

\* C6: over Play and Pause commands interleaved with audio callbacks, the
\* sample counter the engine holds never decreases.
C6_ClockMonotonic ==
    [][sample_counter # None => (sample_counter' # None /\ counter' >= counter)]_vars

\* The clock has advanced and the engine was paused and resumed.
C6_Witness ==
    /\ counter > 0
    /\ playing
    /\ \E i, j \in 1..Len(updates) :
           /\ i < j
           /\ updates[i].type = "PlaybackState" /\ updates[i].arg = FALSE
           /\ updates[j].type = "PlaybackState" /\ updates[j].arg = TRUE

\* C7: while a stream exists only the audio callback writes the sample
\* counter: the end of a callback over N frames adds exactly N, and no step
\* of the engine thread or of the scheduler worker changes its value.
C7_CounterWrittenByCallbackOnly ==
    [][audio_stream # None =>
          IF callback.pc = "frames" /\ callback'.pc = "idle" /\ audio_stream' # None
          THEN counter' = counter + callback.num_frames
          ELSE counter' = counter]_vars

\* Callbacks have advanced the clock, the worker has processed a boundary
\* and the engine has handled a command while the stream existed.
C7_Witness ==
    /\ audio_stream # None
    /\ counter >= MinFrames
    /\ transitions # <<>>
    /\ cmds >= 3

\* Two projects that differ at most in the volume and pan of their tracks.
OnlyVolumePanDiffer(a, b) ==
    /\ Len(a.tracks) = Len(b.tracks)
    /\ [a EXCEPT !.tracks = <<>>] = [b EXCEPT !.tracks = <<>>]
    /\ \A i \in 1..Len(a.tracks) :
           [a.tracks[i] EXCEPT !.volume = 0, !.pan = 0]
               = [b.tracks[i] EXCEPT !.volume = 0, !.pan = 0]

\* C8: a ReloadProject that changes only volume or pan leaves every
\* PlaybackState slot as it is (envelope phase, time and level, oscillator
\* phases), and the next sample rendered under the new snapshot advances
\* the slots exactly as under the old one.
C8_VolumePanReloadKeepsVoices ==
    [][\A p \in ReloadProjects :
          (/\ project # None
           /\ track_configs # None
           /\ OnlyVolumePanDiffer(project[1], p)
           /\ CmdReloadProject(p))
          => /\ audio_state' = audio_state
             /\ render_frame(audio_state.playback_states, track_configs'[1])
                    = render_frame(audio_state.playback_states, track_configs[1])]_vars

\* A note that has been rendered is sounding under a snapshot published by
\* a volume/pan reload.
C8_Witness ==
    /\ track_configs = Some(BuildConfigs(ProjVolPan))
    /\ \E i \in 1..Len(audio_state.playback_states), p \in Pitches :
           /\ audio_state.playback_states[i][p] # None
           /\ audio_state.playback_states[i][p][1].oscillator_phases # <<>>
           /\ audio_state.playback_states[i][p][1].oscillator_phases[1] > 0

\* C9: every frame and every event of one callback is processed against
\* the snapshot the callback loaded at its start, also when a reload has
\* published another snapshot meanwhile.
C9_SnapshotFixedPerCallback ==
    \A u \in used_configs : u[1] = callback.configs

\* A frame of the running callback was processed after a reload had
\* published a different snapshot.
C9_Witness ==
    /\ callback.pc = "frames"
    /\ \E u \in used_configs : u[2] # u[1]

\* C10: after a ReloadProject(p) the next pattern expansion the scheduler
\* performs for a node uses that node's pattern from p.
C10_ExpansionUsesReloadedPattern ==
    (last_expansion # None /\ project # None) =>
        LET e == last_expansion[1]
            i == e.track_id + 1
        IN  i <= Len(project[1].tracks) =>
                LET node == get_node(project[1].tracks[i].graph, e.node_id)
                IN  node # None => e.sequence = node[1].sequence

\* C11: under instrument hot-swap the audio callback never fails: rendering
\* never indexes an oscillator phase outside a sounding note's phase vector,
\* so no callback ends in a panic.
C11_RenderStaysInBounds == callback.pc # "panicked"

\* The StopAllNotes events enqueued for a track, and the sequence
\* boundaries the worker has processed for it.
StopsEnqueued(track_id) ==
    SelectSeq(emitted, LAMBDA e : e.kind = "StopAllNotes" /\ e.track_id = track_id)

BoundariesOf(track_id) ==
    SelectSeq(transitions, LAMBDA t : t.track_id = track_id)

\* C12: for every track, exactly one StopAllNotes has been enqueued per
\* sequence boundary the track has crossed (a cycle A -> B -> A that has
\* begun A again has two).
C12_OneStopPerBoundary ==
    \A i \in 1..Len(timing_state.graphs) :
        Len(StopsEnqueued(i - 1)) = Len(BoundariesOf(i - 1))

\* The positions in a graph's edge list of the first declared edge whose
\* source is node_id (empty when the node has no outgoing edge).
FirstEdgeFrom(graph, node_id) ==
    {k \in 1..Len(graph.edges) :
        /\ graph.edges[k].from = node_id
        /\ \A j \in 1..(k - 1) : graph.edges[j].from # node_id}

\* C13: at every sequence boundary the track's new current node is the
\* target of the first edge, in declaration order, whose source is the
\* current node, whatever the condition and timing of the edges; a node
\* without outgoing edge is entered again.
C13_FirstDeclaredEdge ==
    /\ \A n \in 1..Len(transitions) :
           LET t == transitions[n]
               graph == timing_state.graphs[t.track_id + 1]
               first == FirstEdgeFrom(graph, t.from)
           IN  IF first = {} THEN t.to = t.from
               ELSE \A k \in first : t.to = graph.edges[k].to
    /\ \A i \in 1..Len(timing_state.graphs) :
           LET own == BoundariesOf(i - 1)
           IN  own # <<>> => timing_state.current_nodes[i] = own[Len(own)].to

\* A track has left node A along its first declared edge, whose condition
\* is false and which is declared before an edge with a true condition, and
\* has then looped on node C, which has no outgoing edge.
C13_Witness ==
    /\ project = Some(ProjBranch)
    /\ Len(transitions) >= 2
    /\ transitions[1].from = "A" /\ transitions[1].to = "C"
    /\ transitions[2].from = "C" /\ transitions[2].to = "C"

\* The worker is between two loop iterations: no boundary is half processed.
WorkerAtLoopHead == worker.pc = "load"

\* C14: at a transition observed at clock value c the new node's pattern is
\* expanded with start_sample = c, which is not before the end sample of the
\* sequence it follows, and once the transition is processed the track's
\* sequence end is c + duration_samples(new sequence).
C14_ExpansionStartsAtObservedClock ==
    /\ \A n \in 1..Len(transitions) :
           LET t == transitions[n]
           IN  t.expanded => /\ t.start_sample = t.observed
                             /\ t.start_sample >= t.end_sample
    /\ WorkerAtLoopHead =>
           \A i \in 1..Len(timing_state.graphs) :
               LET own == BoundariesOf(i - 1)
                   last == own[Len(own)]
                   node == get_node(timing_state.graphs[i], last.to)
               IN  (own # <<>> /\ last.expanded) =>
                       timing_state.sequence_end_samples[i] =
                           last.observed + duration_samples(node[1].sequence,
                                                            worker.bpm, worker.sample_rate)

\* A transition observed after the theoretical end sample has been
\* processed and a later boundary of the same track has been observed.
C14_Witness ==
    /\ WorkerAtLoopHead
    /\ \E n, m \in 1..Len(transitions) :
           /\ n < m
           /\ transitions[n].track_id = transitions[m].track_id
           /\ transitions[n].expanded /\ transitions[m].expanded
           /\ transitions[n].observed > transitions[n].end_sample
           /\ transitions[m].end_sample > transitions[n].end_sample + 2

\* The sequence a bench project plays, its end sample when expanded at 0,
\* and the samples per beat of the project.
BenchSequence == project[1].tracks[1].graph.nodes[1].sequence

BenchEnd == duration_samples(BenchSequence, project[1].bpm, project[1].sample_rate)

BenchSamplesPerBeat == (60 * project[1].sample_rate) \div project[1].bpm

\* How many events of a kind, pitch, velocity and timestamp were pushed.
EmittedCount(kind, p, v, t) ==
    Cardinality({k \in 1..Len(emitted) :
                    /\ emitted[k].kind = kind /\ emitted[k].pitch = p
                    /\ emitted[k].velocity = v /\ emitted[k].sample_timestamp = t})

\* How many notes of a list have a pitch, a velocity and an on-sample
\* (off-sample) t.
NotesOnAt(notes, p, v, t) ==
    Cardinality({k \in 1..Len(notes) :
                    /\ notes[k].pitch = p /\ notes[k].velocity = v
                    /\ notes[k].start_beat * BenchSamplesPerBeat = t})

NotesOffAt(notes, p, v, t) ==
    Cardinality({k \in 1..Len(notes) :
                    /\ notes[k].pitch = p /\ notes[k].velocity = v
                    /\ (notes[k].start_beat + notes[k].duration_beats)
                           * BenchSamplesPerBeat = t})

\* C15: in the expansion of a sequence at start_sample 0, with sequence end
\* `BenchEnd`, a note's NoteOn is emitted if and only if its on-sample is
\* strictly before the sequence end, and its NoteOff if and only if its
\* off-sample is at or before the sequence end.
C15_OnBeforeEndOffUpToEnd ==
    audio_stream # None =>
        \E order \in OrdersOf(BenchSequence) :
            LET notes == ScheduledNotes(BenchSequence, order)
            IN  \A p \in {60, 62}, v \in {80, 120},
                   t \in 0..((MaxStartBeat + MaxDurationBeats + 1) * BenchSamplesPerBeat) :
                    /\ EmittedCount("NoteOn", p, v, t) =
                           (IF t < BenchEnd THEN NotesOnAt(notes, p, v, t) ELSE 0)
                    /\ EmittedCount("NoteOff", p, v, t) =
                           (IF t <= BenchEnd THEN NotesOffAt(notes, p, v, t) ELSE 0)

\* An expansion with a note that starts exactly at the sequence end (no
\* event at all) and a note that ends exactly there (both events).
C15_Witness ==
    /\ audio_stream # None
    /\ BenchSequence.kind = "Static"
    /\ Len(BenchSequence.notes) = 2
    /\ BenchSequence.notes[1].start_beat * BenchSamplesPerBeat = BenchEnd
    /\ BenchSequence.notes[2].pitch # BenchSequence.notes[1].pitch
    /\ (BenchSequence.notes[2].start_beat + BenchSequence.notes[2].duration_beats)
           * BenchSamplesPerBeat = BenchEnd
    /\ Len(emitted) = 2
    /\ emitted[2].kind = "NoteOff" /\ emitted[2].sample_timestamp = BenchEnd

\* C16: an expansion that aborts with BufferFull leaves no partial schedule
\* behind: when it aborts, none of its events is in the queue.
C16_NoPartialSchedule ==
    \A k \in 1..Len(aborted) :
        aborted[k].kind = "expansion" => aborted[k].in_queue = 0

\* The Error updates published on the update channel.
ErrorUpdates == SelectSeq(updates, LAMBDA u : u.type = "Error")

\* C17: whenever an expansion or a StopAllNotes push of the scheduler has
\* failed on a full queue, an Error update has been published.
C17_QueueFullPublishesError == aborted # <<>> => ErrorUpdates # <<>>

\* The track (1-based) is on a node its graph does not hold.
OnMissingNode(i) ==
    get_node(timing_state.graphs[i], timing_state.current_nodes[i]) = None

\* C18: when a track's current node does not exist in its graph, the engine
\* does not fail, no note event is enqueued for the track while it is on
\* the missing node, and every other track keeps being scheduled: none of
\* the scheduler's pushes for a track that is on an existing node is refused.
C18_MissingNodeSilentOthersScheduled ==
    (\E i \in 1..Len(timing_state.graphs) : OnMissingNode(i)) =>
        /\ callback.pc # "panicked"
        /\ \A n \in 1..Len(transitions), k \in 1..Len(emitted) :
               (/\ ~transitions[n].expanded
                /\ emitted[k].track_id = transitions[n].track_id
                /\ emitted[k].kind # "StopAllNotes")
                   => emitted[k].sample_timestamp <= transitions[n].observed
        /\ \A i \in 1..Len(timing_state.graphs), k \in 1..Len(emitted) :
               (OnMissingNode(i) /\ BoundariesOf(i - 1) = <<>>)
                   => emitted[k].track_id # i - 1
        /\ \A k \in 1..Len(aborted) : OnMissingNode(aborted[k].track_id + 1)

\* The transition (index into transitions) entered a node whose Generated
\* pattern has a failing script.
EntersFailingNode(n) ==
    LET t == transitions[n]
        node == get_node(timing_state.graphs[t.track_id + 1], t.to)
    IN  /\ t.expanded
        /\ node[1].sequence.kind = "Generated"
        /\ node[1].sequence.function.result = "Err"

\* The first boundary of the same track after transition n is transition m.
NextBoundary(n, m) ==
    /\ n < m
    /\ transitions[m].track_id = transitions[n].track_id
    /\ \A j \in (n + 1)..(m - 1) : transitions[j].track_id # transitions[n].track_id

\* C19: the expansion of a node whose script fails produces no event, and
\* the track leaves that node at the first clock value the worker observes
\* at or after the node's start plus its full duration, for the target of
\* its first edge, as for any node.
C19_FailingScriptIsSilentNode ==
    /\ callback.pc # "panicked"
    /\ \A n \in 1..Len(transitions) :
           EntersFailingNode(n) =>
               /\ transitions[n].events = 0
               /\ \A m \in 1..Len(transitions) :
                      NextBoundary(n, m) =>
                          LET node == get_node(
                                  timing_state.graphs[transitions[n].track_id + 1],
                                  transitions[n].to)
                          IN  /\ transitions[m].from = transitions[n].to
                              /\ transitions[m].end_sample =
                                     transitions[n].observed
                                         + duration_samples(node[1].sequence,
                                                            worker.bpm, worker.sample_rate)
                              /\ transitions[m].observed >= transitions[m].end_sample

\* A track has entered a node with a failing script, left it after its
\* duration, and the events of the node after it have been pushed.
C19_Witness ==
    /\ WorkerAtLoopHead
    /\ \E n, m \in 1..Len(transitions) :
           /\ EntersFailingNode(n)
           /\ NextBoundary(n, m)
           /\ transitions[m].events > 0
           /\ \E k \in 1..Len(emitted) :
                  /\ emitted[k].kind = "NoteOn"
                  /\ emitted[k].sample_timestamp = transitions[m].observed

\* A Stop has been handled since the last Play started a worker: the
\* stream, the configs and the counter handle are dropped (only the Stop arm
\* clears track_configs).
StoppedWithWorker ==
    /\ audio_stream = None
    /\ track_configs = None
    /\ worker.pc # "none"

\* C20: after Stop the scheduler worker started by the last Play eventually
\* exits.
C20_WorkerExitsAfterStop == [](StoppedWithWorker => <>(worker.pc = "none"))

\* C21: at any time at most one scheduler worker is running, whatever
\* sequence of Play, Pause, Stop and LoadProject the engine receives, failed
\* device openings included.
C21_AtMostOneWorker == workers <= 1

\* ------------------------------------------------ envelope specification
\* One track, one note sounding on slot EnvPitch, under an ADSR drawn from a
\* bounded set; the note is rendered sample by sample and receives one
\* NoteOff at any sample, in whatever envelope phase it has reached.
EnvPitch == SetMin(Pitches)

\* Release times in samples, up to the first value the envelope time
\* cannot step over.
BenchReleases == {0, 1, 2, Pow2(MantissaBits)}

BenchADSRs ==
    {ADSR(a, d, s, r) : a \in 0..2, d \in 0..1, s \in {0, 2, LevelOne},
                        r \in BenchReleases}

MaxEnvClock == Pow2(MantissaBits) + 4

EnvProject(adsr) ==
    MkProject("envelope",
              <<[TrackData(0, MultiOsc(<<0>>), 2, 0, GraphSingle)
                    EXCEPT !.adsr = adsr]>>)

InitEnvelope ==
    \E adsr \in BenchADSRs :
        /\ project = Some(EnvProject(adsr))
        /\ track_configs = Some(BuildConfigs(EnvProject(adsr)))
        /\ sample_counter = Some("counter")
        /\ audio_stream = Some("stream")
        /\ playing = TRUE
        /\ updates = <<>>
        /\ cmds = 0
        /\ workers = 0
        /\ counter = 0
        /\ queue = <<>>
        /\ timing_state = NoTimingState
        /\ worker = NoWorker
        /\ audio_state =
               [playback_states |-> <<note_on(NewPlaybackState, EnvPitch, 100, 1)>>,
                pending_event |-> None]
        /\ callback = IdleCallback
        /\ emitted = <<>>
        /\ transitions = <<>>
        /\ applied = <<>>
        /\ last_expansion = None
        /\ aborted = <<>>
        /\ paused_output = <<>>
        /\ used_configs = {}
        /\ live_dsp = NoLiveDsp

\* process_event of a NoteOff for the slot, at the sample about to be rendered.
\* (history: the envelope level at the NoteOff is recorded with the event.)
EnvNoteOff ==
    /\ UNCHANGED live_dsp
    /\ applied = <<>>
    /\ audio_state.playback_states[1][EnvPitch] # None
    /\ LET ev == MidiEvent(counter, 0, "NoteOff", EnvPitch, 100)
       IN  /\ audio_state' =
                  [audio_state EXCEPT !.playback_states =
                      process_event(@, track_configs[1], ev)]
           /\ applied' = <<[event |-> ev, at |-> counter,
                             level |-> audio_state.playback_states[1][EnvPitch][1]
                                           .envelope_level]>>
    /\ UNCHANGED <<engineVars, sharedVars, timingVars, callback, emitted,
                   transitions, last_expansion, aborted, paused_output, used_configs>>

\* render_frame of one sample.
EnvRender ==
    /\ UNCHANGED live_dsp
    /\ counter < MaxEnvClock
    /\ audio_state' =
           [audio_state EXCEPT !.playback_states =
               render_frame(@, track_configs[1])]
    /\ counter' = counter + 1
    /\ UNCHANGED <<engineVars, queue, timingVars, callback, historyVars>>

NextEnvelope == EnvNoteOff \/ EnvRender

SpecEnvelope == InitEnvelope /\ [][NextEnvelope]_vars

\* C22: a NoteOff applied at sample off_sample to an occupied slot has the
\* slot removed no later than sample off_sample + ceil(release * sample_rate)
\* + 1, whatever the envelope phase at the NoteOff: once that sample is
\* rendered the slot is empty.
C22_ReleasedSlotRemovedInTime ==
    (/\ applied # <<>>
     /\ counter >= applied[1].at + track_configs[1][1].adsr.release + 2)
        => audio_state.playback_states[1][EnvPitch] = None

LastUpdate == updates[Len(updates)]

LoadErrorEmitted ==
    updates' = Append(updates, Update("Error", "Failed to load project"))

\* C23: a failing LoadProject emits an Error update and leaves the held
\* project, the playing flag, the audio stream, the config snapshot and the
\* counter exactly as they were before the command.
C23_FailedLoadChangesNothing ==
    [][LoadErrorEmitted =>
          UNCHANGED <<project, playing, audio_stream, track_configs,
                      sample_counter, counter, audio_state>>]_vars

\* A load has failed while a stream was open and the engine playing.
C23_Witness ==
    /\ updates # <<>>
    /\ LastUpdate = Update("Error", "Failed to load project")
    /\ audio_stream # None
    /\ playing
    /\ cmds > 0

ProjectLoadedEmitted(p) ==
    updates' = Append(updates, Update("ProjectLoaded", p))

\* C24: a successful LoadProject stops any active playback: after it the
\* engine holds the loaded project, has no audio stream and is not playing,
\* and the ProjectLoaded update emitted carries that project.
C24_LoadStopsPlayback ==
    [][\A p \in DiskProjects :
          ProjectLoadedEmitted(p) =>
              /\ project' = Some(p)
              /\ audio_stream' = None
              /\ ~playing']_vars

\* A project has been loaded over a session that had been started by Play.
C24_Witness ==
    /\ updates # <<>>
    /\ LastUpdate \in {Update("ProjectLoaded", p) : p \in DiskProjects}
    /\ \E i \in 1..Len(updates) : updates[i] = Update("PlaybackState", TRUE)
    /\ project = Some(LastUpdate.arg)
    /\ audio_stream = None
    /\ ~playing

\* ----------------------------------------------------- stop specification
\* Play and Stop commands only, interleaved with the worker and the audio
\* callback, on a loaded project.
InitStop == InitLoaded(ProjBase)

NextStop ==
    \/ \E device_ok \in BOOLEAN : CmdPlay(device_ok)
    \/ CmdStop
    \/ TimingLoad
    \/ TimingTransition
    \/ TimingPush
    \/ \E n \in MinFrames..MaxFrames : AudioBegin(n)
    \/ AudioFrame
    \/ AudioEnd

SpecStop == InitStop /\ [][NextStop]_vars

StopEmitted ==
    updates' = updates \o <<Update("PlaybackState", FALSE),
                            Update("CurrentNodes", <<>>)>>

\* A Play that starts playback, received right after a Stop.
PlayAfterStop ==
    /\ updates # <<>>
    /\ LastUpdate = Update("CurrentNodes", <<>>)
    /\ updates' = Append(updates, Update("PlaybackState", TRUE))

StoppedEngine ==
    /\ audio_stream = None
    /\ sample_counter = None
    /\ track_configs = None
    /\ ~playing

FreshPlaybackStates ==
    /\ audio_state.pending_event = None
    /\ audio_state.playback_states =
           [i \in 1..Len(project[1].tracks) |-> NewPlaybackState]

\* C25 as stated: after Stop the engine holds no stream, no counter and no
\* config snapshot and is not playing, and the Play that follows starts
\* from sample 0 with an empty queue and empty per-track playback states.
C25_PlayAfterStopQueueEmpty ==
    [][/\ StopEmitted => StoppedEngine'
       /\ PlayAfterStop => /\ counter' = 0
                           /\ queue' = <<>>
                           /\ FreshPlaybackStates']_vars

\* C25, amended: after Stop the engine holds no stream, no counter and no
\* config snapshot and is not playing, and the Play that follows starts
\* from sample 0 with a new queue, which holds the initial expansion of
\* every track and nothing else, and with empty per-track playback states.
C25_PlayAfterStopStartsAfresh ==
    [][/\ StopEmitted => StoppedEngine'
       /\ PlayAfterStop =>
              /\ counter' = 0
              /\ queue' \in {InitialQueue(project[1], orders, 1, <<>>) :
                                orders \in InitialOrders(project[1])}
              /\ FreshPlaybackStates']_vars

\* Playback has been started, stopped and started again.
C25_Witness ==
    /\ Len(updates) >= 4
    /\ LastUpdate = Update("PlaybackState", TRUE)
    /\ updates[Len(updates) - 1] = Update("CurrentNodes", <<>>)
    /\ \E i \in 1..(Len(updates) - 3) : updates[i] = Update("PlaybackState", TRUE)
    /\ counter = 0
    /\ audio_stream # None

\* The host invokes the callback of an open stream for its next buffer.
CallbackInvoked == \E n \in MinFrames..MaxFrames : AudioBegin(n)

\* The Play / Pause specification with the host invoking the callback of an
\* open stream again and again: the cpal stream built and started by
\* setup_audio calls the closure for every buffer of the device.
SpecPlayPauseLive == SpecPlayPause /\ WF_vars(CallbackInvoked)

\* Paused: a stream is open and the playing flag is cleared.
Paused == audio_stream # None /\ ~playing

\* The callback is between two buffers, and the next one fits the clock range.
CallbackDue == callback.pc = "idle" /\ counter + MinFrames <= MaxClock

\* The step of the callback that ends a buffer.
BufferEnds == callback.pc = "frames" /\ callback'.pc = "idle"

\* C26: Pause does not freeze the audio callback: while the engine is paused
\* the callback keeps being invoked (a buffer that is due is begun), and
\* every buffer it ends advances the sample counter by the buffer's number
\* of frames.
C26_PausedClockAdvances ==
    /\ [][(Paused /\ BufferEnds) => counter' = counter + callback.num_frames]_vars
    /\ (Paused /\ CallbackDue) ~> (~Paused \/ callback.pc = "frames")

\* The engine is paused and a buffer begun during the pause has ended.
C26_Witness ==
    /\ Paused
    /\ callback.pc = "idle"
    /\ Len(paused_output) > MaxFrames
    /\ counter >= Len(paused_output)

\* C27: while the engine is paused the audio output is gated to silence:
\* every frame the callback writes between a Pause and the next Play is
\* zero, even when notes are sounding.
C27_PausedOutputSilent ==
    \A k \in 1..Len(paused_output) : paused_output[k] = 0

\* ------------------------------------------- track count specification
\* A track whose only pattern is empty.
GraphRest ==
    [nodes |-> <<Node("A", Static(1, <<3, 4>>, <<>>))>>, edges |-> <<>>]

\* The first k tracks of: a silent track, a short cycle, a single pattern.
ProjTracks(k) ==
    MkProject("tracks",
              SubSeq(<<TrackData(0, MultiOsc(<<0>>), 2, 0, GraphRest),
                       TrackData(1, MultiOsc(<<0>>), 2, 0, GraphShortLoop),
                       TrackData(2, MultiOsc(<<0>>), 2, 0, GraphSingle)>>, 1, k))

\* Reloads that differ from the loaded project in the number of tracks only.
TrackCountProjects == {ProjTracks(1), ProjTracks(2), ProjTracks(3)}

InitTracks == InitLoaded(ProjTracks(2))

NextTracks ==
    \/ \E p \in TrackCountProjects : CmdReloadProject(p)
    \/ \E device_ok \in BOOLEAN : CmdPlay(device_ok)
    \/ TimingLoad
    \/ TimingTransition
    \/ TimingPush
    \/ \E n \in MinFrames..MaxFrames : AudioBegin(n)
    \/ AudioFrame
    \/ AudioEnd

SpecTracks == InitTracks /\ [][NextTracks]_vars

\* The events addressed to the first track indices without a PlaybackState.
StrayEvents(states) ==
    {MidiEvent(counter, t, kind, p, 100) :
        t \in Len(states)..(Len(states) + 1), kind \in {"NoteOn", "NoteOff"},
        p \in Pitches}
    \cup {StopAllNotes(counter, t) : t \in Len(states)..(Len(states) + 1)}

\* C28: a ReloadProject that changes the number of tracks is tolerated by
\* the audio callback: the callback does not fail, render_frame renders
\* only the first min(snapshot length, PlaybackState count) tracks, and an
\* event addressed to a track index without a PlaybackState is discarded
\* and changes no track's state.
C28_TrackCountChangeTolerated ==
    /\ callback.pc # "panicked"
    /\ (audio_stream # None /\ track_configs # None) =>
           LET states == audio_state.playback_states
               configs == track_configs[1]
           IN  /\ \A i \in 1..Len(states) :
                      i > Len(configs) => render_frame(states, configs)[i] = states[i]
               /\ \A ev \in StrayEvents(states) :
                      process_event(states, configs, ev) = states

\* Event a is the StopAllNotes of a boundary of some track and event b a
\* NoteOn of the same track with the same timestamp.  A NoteOn starts
\* before the end of its sequence, so b belongs to the sequence that
\* begins at that boundary.
StopAndFirstNote(a, b) ==
    /\ a.kind = "StopAllNotes"
    /\ b.kind = "NoteOn"
    /\ a.track_id = b.track_id
    /\ a.sample_timestamp = b.sample_timestamp

BenchSemitones == {I8Min, -61, 0, 3, 67, 68, I8Max}

\* One track playing a short cycle through an oscillator transposed by s.
TransposeProject(s) ==
    MkProject("transpose",
              <<TrackData(0, MultiOsc(<<s>>), 2, 0, GraphShortLoop)>>)

InitTranspose == \E s \in BenchSemitones : InitLoaded(TransposeProject(s))

NextTranspose ==
    \/ \E device_ok \in BOOLEAN : CmdPlay(device_ok)
    \/ TimingLoad
    \/ TimingTransition
    \/ TimingPush
    \/ \E n \in MinFrames..MaxFrames : AudioBegin(n)
    \/ AudioFrame
    \/ AudioEnd

SpecTranspose == InitTranspose /\ [][NextTranspose]_vars

\* p + s saturated into 0..127
SaturatedNote(p, s) == Max(0, Min(I8Max, p + s))

\* C30: for every sounding pitch p and every oscillator semitone offset s
\* the transposed pitch used for the oscillator frequency is p + s
\* saturated into 0..127: the addition never overflows (the render does not
\* fail on it) and the value is never a wrapped one.
C30_TransposeSaturates ==
    /\ callback.pc # "panicked"
    /\ audio_stream # None =>
           \A i \in 1..Min(Len(audio_state.playback_states), Len(track_configs[1])) :
               \A p \in Pitches,
                  k \in 1..num_oscillators(track_configs[1][i]) :
                   audio_state.playback_states[i][p] # None =>
                       LET s == track_configs[1][i].instrument.oscillators[k]
                       IN  /\ ~add_overflows(p, s)
                           /\ osc_note(p, s) = SaturatedNote(p, s)

\* ------------------------------------------------------- project loading
\* A project directory on disk: whether project.ron can be read, whether
\* its text deserialises into a Project, and the Project it then gives.
ProjectFile(readable, parses, proj) ==
    [readable |-> readable, parses |-> parses, project |-> proj]

\* Project::load: read_to_string, then ron::from_str; the deserialised
\* value is returned as it is.
load(file) ==
    IF file.readable /\ file.parses
    THEN [ok |-> TRUE, project |-> file.project]
    ELSE [ok |-> FALSE, project |-> file.project]

\* The directories a LoadProject command can name.
ProjectFiles ==
    {ProjectFile(TRUE, TRUE, ProjBase), ProjectFile(TRUE, TRUE, ProjMissing),
     ProjectFile(FALSE, FALSE, ProjBase), ProjectFile(TRUE, FALSE, ProjBase)}

\* EngineCommand::LoadProject(path)
CmdLoadProjectPath(file) == CmdLoadProject(load(file).ok, load(file).project)

NextLoad ==
    \/ \E file \in ProjectFiles : CmdLoadProjectPath(file)
    \/ \E p \in ReloadProjects : CmdReloadProject(p)
    \/ \E device_ok \in BOOLEAN : CmdPlay(device_ok)
    \/ CmdPause
    \/ CmdStop
    \/ TimingLoad
    \/ TimingTransition
    \/ TimingPush
    \/ \E n \in MinFrames..MaxFrames : AudioBegin(n)
    \/ AudioFrame
    \/ AudioEnd

SpecLoad == Init /\ [][NextLoad]_vars

\* The graph invariant of a track: initial_node exists in the graph and
\* both endpoints of every edge exist.
GraphInvariant(track) ==
    /\ get_node(track.graph, track.initial_node) # None
    /\ \A k \in 1..Len(track.graph.edges) :
           /\ get_node(track.graph, track.graph.edges[k].from) # None
           /\ get_node(track.graph, track.graph.edges[k].to) # None

\* C31: every project for which ProjectLoaded has been emitted satisfies
\* the graph invariant for each of its tracks (a project violating it is
\* rejected with an Error update, not accepted).
C31_AcceptedProjectsHaveValidGraphs ==
    \A n \in 1..Len(updates) :
        updates[n].type = "ProjectLoaded" =>
            \A i \in 1..Len(updates[n].arg.tracks) :
                GraphInvariant(updates[n].arg.tracks[i])

\* --------------------------------------------------- note normalisation
\* Sequence::get_notes on its own: a one-track project whose only node is a
\* Generated pattern returning a note list drawn from a bounded set; Play
\* expands it.  The beats include values past the range in which every
\* whole multiple of the finest spacing is representable.
NormStarts == {1, 2, Pow2(MantissaBits) + 2}
NormDurations == {1, Pow2(MantissaBits)}

NormNotes ==
    {Note(p, v, s, d) : p \in {60, 62}, v \in {80, 120},
                        s \in NormStarts, d \in NormDurations}

NormNoteLists ==
    {<<>>} \cup {<<a>> : a \in NormNotes} \cup {<<a, b>> : a, b \in NormNotes}
    \cup {<<a, b, c>> : a, b, c \in NormNotes}

NormProjects ==
    {BenchProject(Generated(1, <<4, 4>>, Script(notes))) : notes \in NormNoteLists}

InitNormalize == \E p \in NormProjects : InitLoaded(p)

NextNormalize == CmdPlay(TRUE)

SpecNormalize == InitNormalize /\ [][NextNormalize]_vars

\* The end of a note as the code computes it.
NoteEnd(n) == F32Add(n.start_beat, n.duration_beats)

\* Two notes of the same pitch overlap or touch.
Touch(a, b) ==
    /\ a.pitch = b.pitch
    /\ a.start_beat <= NoteEnd(b)
    /\ b.start_beat <= NoteEnd(a)

\* The maximal group of notes of a list (as positions) that holds the
\* positions S and is closed under overlapping or touching.
RECURSIVE GroupClosure(_, _)
GroupClosure(notes, S) ==
    LET T == S \cup {j \in 1..Len(notes) : \E i \in S : Touch(notes[i], notes[j])}
    IN  IF T = S THEN S ELSE GroupClosure(notes, T)

SetMax(S) == CHOOSE x \in S : \A y \in S : y <= x

\* The note the claim gives for a group.
IsMergeOf(n, notes, G) ==
    /\ \A i \in G : n.pitch = notes[i].pitch
    /\ n.start_beat = SetMin({notes[i].start_beat : i \in G})
    /\ NoteEnd(n) = SetMax({NoteEnd(notes[i]) : i \in G})
    /\ n.velocity = SetMax({notes[i].velocity : i \in G})

\* The result is the note list with every maximal group merged.
Normalized(notes, result) ==
    LET groups == {GroupClosure(notes, {i}) : i \in 1..Len(notes)}
    IN  /\ \A i, j \in 1..Len(result) : i # j => ~Touch(result[i], result[j])
        /\ Len(result) = Cardinality(groups)
        /\ \A G \in groups :
               \E k \in 1..Len(result) : IsMergeOf(result[k], notes, G)

\* The pattern of the bench project's only node.
LoadedSequence == project[1].tracks[1].graph.nodes[1].sequence

\* C32: the note list get_notes returns holds no two notes of the same
\* pitch that overlap or touch: each maximal group of same-pitch notes that
\* overlap or touch is replaced by one note with the minimum start, the
\* maximum end and the maximum velocity, whatever the other pitches hold.
C32_GetNotesMergesGroups ==
    audio_stream # None =>
        \A order \in Orders(PitchesOf(RawNotes(LoadedSequence))) :
            Normalized(RawNotes(LoadedSequence), get_notes(LoadedSequence, order))

\* ------------------------------------------------- queue to application
\* The events the audio callback has popped in this session: the queue is
\* first-in first-out, so they are the pushed events the queue no longer holds.
Popped == SubSeq(emitted, 1, Len(emitted) - Len(queue))

PendingEvents == audio_state.pending_event

CountIn(s, e) == Cardinality({i \in 1..Len(s) : s[i] = e})

\* The end of the buffer of the running callback, or of the last one.
BufferEnd ==
    IF callback.pc = "idle" THEN counter
    ELSE callback.current_sample + callback.num_frames

\* Every popped event is applied, or waits in the running callback's
\* vector for a frame of this buffer, or is the pending event; each once.
PoppedAccounted ==
    /\ Len(Popped) = Len(applied) + Len(callback.events) + Len(PendingEvents)
    /\ \A i \in 1..Len(Popped) :
           CountIn(Popped, Popped[i])
               = CountIn(AppliedEvents, Popped[i])
                 + CountIn(callback.events, Popped[i])
                 + CountIn(PendingEvents, Popped[i])
    /\ \A i \in 1..Len(callback.events) :
           callback.events[i].sample_timestamp < BufferEnd
    /\ PendingEvents # None =>
           (audio_stream # None => PendingEvents[1].sample_timestamp >= BufferEnd)

\* A step that leaves the same event pending pops nothing.
NoPopWhilePending ==
    (/\ PendingEvents # None
     /\ audio_state'.pending_event = PendingEvents)
        => Len(emitted') - Len(queue') = Len(emitted) - Len(queue)

\* C33: no event is lost or duplicated between queue and application: every
\* event the audio callback pops is applied exactly once in that callback
\* (timestamp < buffer_end) or kept as the single pending event and applied
\* exactly once in the first later callback whose buffer_end exceeds its
\* timestamp; while an event is pending no further event is popped.
C33_PoppedEventsAppliedOnce == [](PoppedAccounted) /\ [][NoPopWhilePending]_vars

\* A callback has taken the pending event of an earlier callback and has
\* applied it, while the next event waits as the pending one.
C33_Witness ==
    /\ callback.pc = "frames"
    /\ callback.carried # None
    /\ CountIn(callback.events, callback.carried[1]) = 0
    /\ \E k \in 1..Len(applied) :
           /\ applied[k].event = callback.carried[1]
           /\ applied[k].at >= callback.current_sample
    /\ PendingEvents # None

\* The slot of the envelope bench's note.
EnvSlot == audio_state.playback_states[1][EnvPitch]

\* C34: during the Release phase the level captured at release entry is not
\* modified by rendering: after a NoteOff, envelope_level keeps the value it
\* had at release entry for every subsequent sample, and the envelope output
\* at release time t is that level times (1 - t/release).
C34_ReleaseLevelKept ==
    (/\ applied # <<>>
     /\ EnvSlot # None
     /\ EnvSlot[1].envelope_state = "Release")
        => LET release == track_configs[1][1].adsr.release
               captured == applied[1].level
           IN  /\ EnvSlot[1].envelope_level = captured
               /\ release # 0 =>
                      calculate_envelope(EnvSlot[1], track_configs[1][1].adsr)
                          = (captured * (release - Min(EnvSlot[1].time, release)))
                                \div release

\* ----------------------------------------------------- examples/live_dsp
\* The graph file of the live_dsp example: up to MaxNodes node lines and up
\* to MaxWires wires.
MaxNodes == 3
MaxWires == 2

DspNodeIds == {0, 1, 2}

Wire(from, to) == [from_node_id |-> from, to_node_id |-> to]

DspWires == {Wire(a, b) : a, b \in DspNodeIds}

SeqsUpTo(S, n) == UNION {[1..k -> S] : k \in 0..n}

\* The text of a file by what parse_file reads from it: the ids of its
\* node lines in file order (a node is its id here: its kind and its
\* parameters play no part in the order), the wires of its wire lines in
\* file order, and whether every line is well-formed.
DspContent(nodes, wires, well_formed) ==
    [nodes |-> nodes, wires |-> wires, well_formed |-> well_formed]

DspContents ==
    {DspContent(n, w, TRUE) : n \in SeqsUpTo(DspNodeIds, MaxNodes),
                              w \in SeqsUpTo(DspWires, MaxWires)}
    \cup {DspContent(<<0>>, <<>>, FALSE)}

\* The contents the watched file is edited to while the program runs.
DspEdits ==
    {DspContent(<<2, 1, 0>>, <<Wire(0, 1), Wire(1, 2)>>, TRUE),
     DspContent(<<0, 1>>, <<Wire(0, 1), Wire(1, 0)>>, TRUE),
     DspContent(<<0>>, <<Wire(0, 1)>>, TRUE),
     DspContent(<<0>>, <<>>, FALSE)}

NodeIdsOf(nodes) == {nodes[i] : i \in 1..Len(nodes)}

\* validate_wires: TRUE for Ok(())
validate_wires(nodes, wires) ==
    \A k \in 1..Len(wires) :
        /\ wires[k].from_node_id \in NodeIdsOf(nodes)
        /\ wires[k].to_node_id \in NodeIdsOf(nodes)

\* AudioGraph::sort, the in-degree map (every wire's destination is a key:
\* validate_wires has passed).
InDegree(nodes, wires) ==
    [id \in NodeIdsOf(nodes) |->
        Cardinality({k \in 1..Len(wires) : wires[k].to_node_id = id})]

\* AudioGraph::sort, the loop over the wires for the popped node_id.
\* st = [in_degree, queue, overflow]; `*deg -= 1` on a zero degree
\* overflows (overflow is set, the degree wraps).
RECURSIVE Relax(_, _, _)
Relax(wires, node_id, st) ==
    IF wires = <<>> THEN st
    ELSE LET to == Head(wires).to_node_id
             deg == st.in_degree[to]
         IN  IF Head(wires).from_node_id # node_id
             THEN Relax(Tail(wires), node_id, st)
             ELSE IF deg = 0
             THEN Relax(Tail(wires), node_id,
                        [st EXCEPT !.in_degree[to] = U64Max, !.overflow = TRUE])
             ELSE Relax(Tail(wires), node_id,
                        [st EXCEPT !.in_degree[to] = deg - 1,
                                   !.queue = IF deg = 1 THEN Append(@, to) ELSE @])

\* AudioGraph::sort, `while let Some(node_id) = queue.pop()`: the queue is
\* a Vec, pop takes its last element.
RECURSIVE SortLoop(_, _, _)
SortLoop(st, sorted_ids, wires) ==
    IF st.queue = <<>> THEN [sorted_ids |-> sorted_ids, overflow |-> st.overflow]
    ELSE LET node_id == st.queue[Len(st.queue)]
             popped == [st EXCEPT !.queue = SubSeq(@, 1, Len(@) - 1)]
         IN  SortLoop(Relax(wires, node_id, popped), Append(sorted_ids, node_id), wires)

\* The position of the first node with the id, 0 if there is none.
Position(nodes, id) ==
    IF id \in NodeIdsOf(nodes)
    THEN SetMin({i \in 1..Len(nodes) : nodes[i] = id}) ELSE 0

RemoveAt(s, i) == SubSeq(s, 1, i - 1) \o SubSeq(s, i + 1, Len(s))

\* AudioGraph::sort, the loop that moves the nodes into sorted order;
\* <<>> stands for the Err of a node id that is not found.
RECURSIVE TakeNodes(_, _, _)
TakeNodes(nodes, sorted_ids, sorted_nodes) ==
    IF sorted_ids = <<>> THEN Some(sorted_nodes)
    ELSE LET idx == Position(nodes, Head(sorted_ids))
         IN  IF idx = 0 THEN None
             ELSE TakeNodes(RemoveAt(nodes, idx), Tail(sorted_ids),
                            Append(sorted_nodes, nodes[idx]))

AudioGraph(nodes, wires, is_sorted) ==
    [nodes |-> nodes, wires |-> wires, is_sorted |-> is_sorted]

ParseOk(graph) == [kind |-> "Ok", graph |-> graph]
ParseErr(message) == [kind |-> "Err", message |-> message]
ParsePanic == [kind |-> "Panic"]

\* AudioGraph::sort up to the end of its loop: the ids of in-degree 0, in
\* the iteration order `order` of the in_degree HashMap, start the queue.
SortedIds(nodes, wires, order) ==
    LET in_degree == InDegree(nodes, wires)
        ready == SelectSeq(order, LAMBDA id : in_degree[id] = 0)
    IN  SortLoop([in_degree |-> in_degree, queue |-> ready, overflow |-> FALSE],
                 <<>>, wires)

\* Faulty variant of sort: the cycle check is kept, the nodes stay in file order.
sortKeepsFileOrder(nodes, wires, order, overflow_checks) ==
    LET done == SortedIds(nodes, wires, order)
    IN  IF Len(done.sorted_ids) # Len(nodes) THEN ParseErr("Cycle detected")
        ELSE ParseOk(AudioGraph(nodes, wires, TRUE))

\* AudioGraph::sort on a graph of nodes and wires; an overflowing
\* subtraction panics when the build checks overflow.
sort(nodes, wires, order, overflow_checks) ==
    LET done == SortedIds(nodes, wires, order)
        sorted_nodes == TakeNodes(nodes, done.sorted_ids, <<>>)
    IN  IF done.overflow /\ overflow_checks THEN ParsePanic
        ELSE IF Len(done.sorted_ids) # Len(nodes) THEN ParseErr("Cycle detected")
        ELSE IF sorted_nodes = None THEN ParseErr("Couldn't find node id")
        ELSE ParseOk(AudioGraph(sorted_nodes[1], wires, TRUE))

\* parse_file
parse_file(content, order, overflow_checks) ==
    IF ~content.well_formed THEN ParseErr("syntax")
    ELSE IF ~validate_wires(content.nodes, content.wires)
    THEN ParseErr("wire references unknown node")
    ELSE sort(content.nodes, content.wires, order, overflow_checks)

\* AudioGraph::process, by what it does to the program: it panics on a
\* graph that is not sorted or on a wire whose source is no node; `stale`
\* says that some node read the buffer of a node processed after it.
process(graph) ==
    [panic |-> \/ ~graph.is_sorted
               \/ \E k \in 1..Len(graph.wires) :
                      Position(graph.nodes, graph.wires[k].from_node_id) = 0,
     stale |-> \E i \in 1..Len(graph.nodes), k \in 1..Len(graph.wires) :
                   /\ graph.wires[k].to_node_id = graph.nodes[i]
                   /\ Position(graph.nodes, graph.wires[k].from_node_id) > i]

DspOrders(content) == Orders(NodeIdsOf(content.nodes))

\* main up to the first parse: expect() ends the program on an Err.
DspMain ==
    /\ live_dsp.pc = "start"
    /\ \E order \in DspOrders(live_dsp.content), overflow_checks \in BOOLEAN :
           LET r == parse_file(live_dsp.content, order, overflow_checks)
           IN  live_dsp' = [live_dsp EXCEPT
                               !.pc = IF r.kind = "Ok" THEN "running"
                                      ELSE IF r.kind = "Err" THEN "exited"
                                      ELSE "panicked",
                               !.graph = IF r.kind = "Ok" THEN Some(r.graph) ELSE None,
                               !.result = r.kind]
    /\ UNCHANGED <<engineVars, sharedVars, timingVars, audioVars, historyVars>>

\* The watcher's callback on a modify event: the file is parsed again and
\* the graph is stored only on Ok.
DspFileModified(content) ==
    /\ live_dsp.pc = "running"
    /\ live_dsp.reloads = 0
    /\ \E order \in DspOrders(content), overflow_checks \in BOOLEAN :
           LET r == parse_file(content, order, overflow_checks)
           IN  live_dsp' = [live_dsp EXCEPT
                               !.pc = IF r.kind = "Panic" THEN "panicked" ELSE @,
                               !.content = content,
                               !.graph = IF r.kind = "Ok" THEN Some(r.graph) ELSE @,
                               !.processed = IF r.kind = "Ok" THEN FALSE ELSE @,
                               !.result = r.kind,
                               !.reloads = 1]
    /\ UNCHANGED <<engineVars, sharedVars, timingVars, audioVars, historyVars>>

\* The audio callback: load the graph, process one buffer.
DspCallback ==
    /\ live_dsp.pc = "running"
    /\ ~live_dsp.processed
    /\ LET out == process(live_dsp.graph[1])
       IN  live_dsp' = [live_dsp EXCEPT
                           !.pc = IF out.panic THEN "panicked" ELSE @,
                           !.processed = TRUE,
                           !.stale = out.stale]
    /\ UNCHANGED <<engineVars, sharedVars, timingVars, audioVars, historyVars>>

InitDsp ==
    /\ project = None
    /\ track_configs = None
    /\ sample_counter = None
    /\ audio_stream = None
    /\ playing = FALSE
    /\ updates = <<>>
    /\ cmds = 0
    /\ workers = 0
    /\ counter = 0
    /\ queue = <<>>
    /\ timing_state = NoTimingState
    /\ worker = NoWorker
    /\ audio_state = NoAudioState
    /\ callback = IdleCallback
    /\ emitted = <<>>
    /\ transitions = <<>>
    /\ applied = <<>>
    /\ last_expansion = None
    /\ aborted = <<>>
    /\ paused_output = <<>>
    /\ used_configs = {}
    /\ \E content \in DspContents :
           live_dsp = [pc |-> "start", content |-> content, graph |-> None,
                       result |-> "none", processed |-> FALSE, stale |-> FALSE,
                       reloads |-> 0]

NextDsp ==
    \/ DspMain
    \/ \E content \in DspEdits : DspFileModified(content)
    \/ DspCallback

SpecDsp == InitDsp /\ [][NextDsp]_vars

\* The ids a wire path leads to from the ids of S (S included).
RECURSIVE WireClosure(_, _)
WireClosure(wires, S) ==
    LET T == S \cup {wires[k].to_node_id :
                        k \in {j \in 1..Len(wires) : wires[j].from_node_id \in S}}
    IN  IF T = S THEN S ELSE WireClosure(wires, T)

\* The wires of the content form a cycle.
HasCycle(content) ==
    \E k \in 1..Len(content.wires) :
        content.wires[k].from_node_id
            \in WireClosure(content.wires, {content.wires[k].to_node_id})

\* A wire of the content names an id no node line declares.
HasUnknownId(content) ==
    \E k \in 1..Len(content.wires) :
        \/ content.wires[k].from_node_id \notin NodeIdsOf(content.nodes)
        \/ content.wires[k].to_node_id \notin NodeIdsOf(content.nodes)

\* Every wire's source node comes before its destination node.
TopologicallySorted(graph) ==
    \A k \in 1..Len(graph.wires) :
        \E i, j \in 1..Len(graph.nodes) :
            /\ i < j
            /\ graph.nodes[i] = graph.wires[k].from_node_id
            /\ graph.nodes[j] = graph.wires[k].to_node_id
            /\ \A m \in 1..Len(graph.nodes) :
                   /\ graph.nodes[m] = graph.wires[k].from_node_id => m = i
                   /\ graph.nodes[m] = graph.wires[k].to_node_id => m = j

\* C35: parse_file returns a graph only when it is topologically sorted:
\* the graph the program holds has is_sorted set and every wire's source
\* node before its destination node, so process never panics on it; a file
\* whose wires form a cycle or name an unknown node id gives an error.
C35_ParsedGraphSorted ==
    /\ live_dsp.pc # "panicked"
    /\ live_dsp.graph # None =>
           /\ live_dsp.graph[1].is_sorted
           /\ TopologicallySorted(live_dsp.graph[1])
    /\ (/\ live_dsp.result # "none"
        /\ HasCycle(live_dsp.content) \/ HasUnknownId(live_dsp.content))
           => live_dsp.result = "Err"
    /\ live_dsp.result = "Ok" =>
           /\ live_dsp.graph[1].wires = live_dsp.content.wires
           /\ Len(live_dsp.graph[1].nodes) = Len(live_dsp.content.nodes)
           /\ NodeIdsOf(live_dsp.graph[1].nodes) = NodeIdsOf(live_dsp.content.nodes)

\* A file whose node lines are not in a sorted order has been parsed into
\* a graph of every node id, with wires, in another order, and the audio
\* callback has processed the graph.
C35_Witness ==
    /\ live_dsp.pc = "running"
    /\ live_dsp.result = "Ok"
    /\ live_dsp.processed
    /\ Len(live_dsp.graph[1].nodes) = Cardinality(DspNodeIds)
    /\ Len(live_dsp.graph[1].wires) >= 2
    /\ live_dsp.graph[1].nodes # live_dsp.content.nodes

\* ----------------------------------------------------------- ui/mod.rs
\* AurioApp::process_engine_updates, the playing field: it starts false
\* (AurioApp::new) and every PlaybackState update overwrites it; the other
\* updates leave it alone.
RECURSIVE process_engine_updates(_, _)
process_engine_updates(ui_playing, pending_updates) ==
    IF pending_updates = <<>> THEN ui_playing
    ELSE process_engine_updates(
             IF Head(pending_updates).type = "PlaybackState"
             THEN Head(pending_updates).arg ELSE ui_playing,
             Tail(pending_updates))

\* C36: the control side's view of playback never diverges from the
\* engine: the playing value of the most recent PlaybackState update
\* published (false if none was published) equals the engine's playing flag.
C36_PublishedPlayingMatchesEngine ==
    process_engine_updates(FALSE, updates) = playing

\* C37: no event is applied before its time: whenever the audio callback
\* has applied an event, the absolute sample index of the frame that was
\* being rendered is greater than or equal to the event's sample_timestamp.
C37_NoEventAppliedEarly ==
    \A k \in 1..Len(applied) : applied[k].at >= applied[k].event.sample_timestamp

\* The running callback has held an event back to a later frame of its
\* buffer and has applied it there, at the sample of its timestamp.
C37_Witness ==
    /\ callback.pc = "frames"
    /\ \E k \in 1..Len(applied) :
           /\ applied[k].at = applied[k].event.sample_timestamp
           /\ applied[k].at > callback.current_sample
           /\ applied[k].at < callback.current_sample + callback.num_frames

\* ------------------------------------------------- voices specification
\* One Play on a project whose sequences all have a positive duration and
\* whose events fit the ring buffer, then the worker and the audio callback
\* under fair scheduling.
\* Node A holds a note whose NoteOff falls past the end of the sequence and
\* a note released at the end; node B is a rest.
GraphHeld ==
    [nodes |-> <<Node("A", Short(<<Note(60, 100, 0, 2), Note(62, 100, 0, 1)>>)),
                 Node("B", Short(<<>>))>>,
     edges |-> <<Edge("A", "B"), Edge("B", "A")>>]

\* One node without an edge, repeated for ever; its note is never released.
GraphDrone ==
    [nodes |-> <<Node("A", Short(<<Note(64, 100, 0, 2)>>))>>,
     edges |-> <<>>]

ProjHeld ==
    MkProject("held", <<TrackData(0, MultiOsc(<<0>>), 2, 0, GraphHeld)>>)

ProjDrone ==
    MkProject("drone", <<TrackData(0, MultiOsc(<<0>>), 2, 0, GraphDrone),
                         TrackData(1, MultiOsc(<<0>>), 2, 0, GraphShortLoop)>>)

VoiceProjects == {ProjHeld, ProjDrone}

InitVoices == \E p \in VoiceProjects : InitLoaded(p)

NextVoices ==
    \/ CmdPlay(TRUE)
    \/ TimingLoad
    \/ TimingTransition
    \/ TimingPush
    \/ \E n \in MinFrames..MaxFrames : AudioBegin(n)
    \/ AudioFrame
    \/ AudioEnd

\* The worker is inside an iteration of its loop: at the body of the for
\* loop for a track, or in the push loop of schedule_sequence_events.
WorkerInIteration == worker.pc \in {"track", "push"}

\* The callback is inside the frame loop of a buffer.
CallbackInFrames == callback.pc = "frames" /\ callback.frame < callback.num_frames

\* The worker thread spins without blocking and the host keeps invoking the
\* callback of the open stream: a step either can take is eventually taken.
\* A step inside the worker's for loop, its push loop or the callback's frame
\* loop is enabled by the thread's position alone and each loop is bounded,
\* so weak fairness of these steps says that the thread does not stay
\* inside the loop for ever.
SpecVoices ==
    /\ InitVoices
    /\ [][NextVoices]_vars
    /\ WF_vars(TimingLoad)
    /\ []<>(~WorkerInIteration)
    /\ WF_vars(CallbackInvoked)
    /\ []<>(~CallbackInFrames)
    /\ WF_vars(AudioEnd)

\* The track positions (1-based) of the voices projects.
VoiceTrackIds == UNION {1..Len(p.tracks) : p \in VoiceProjects}

\* PlaybackState slot p of track position i (None without a stream).
Slot(i, p) ==
    IF i <= Len(audio_state.playback_states)
    THEN audio_state.playback_states[i][p] ELSE None

AppliedNoteOn(k, i, p) ==
    /\ applied[k].event.kind = "NoteOn"
    /\ applied[k].event.track_id = i - 1
    /\ applied[k].event.pitch = p

AppliedStop(k, i) ==
    /\ applied[k].event.kind = "StopAllNotes"
    /\ applied[k].event.track_id = i - 1

\* The voice that a NoteOn applied at sample t started on slot p of track
\* position i is still there: the slot is occupied and no later NoteOn of
\* the pitch was applied since.
VoiceAlive(i, p, t) ==
    /\ Slot(i, p) # None
    /\ \E k \in 1..Len(applied) :
           /\ AppliedNoteOn(k, i, p)
           /\ applied[k].at = t
           /\ \A j \in (k + 1)..Len(applied) : ~AppliedNoteOn(j, i, p)

\* No further buffer fits the clock range of the model.
ClockExhausted == callback.pc = "idle" /\ counter + MinFrames > MaxClock

\* A slot is empty once a StopAllNotes of its track has been applied and no
\* NoteOn of its pitch after it.
StoppedSlotsEmpty ==
    \A i \in VoiceTrackIds, p \in Pitches :
        (\E k \in 1..Len(applied) :
             /\ AppliedStop(k, i)
             /\ \A j \in (k + 1)..Len(applied) : ~AppliedNoteOn(j, i, p))
        => Slot(i, p) = None

\* Every boundary the worker has handled has put a StopAllNotes of the
\* track, stamped with the sample the worker observed, on the queue.
BoundariesEmitStop ==
    aborted = <<>> =>
        \A n \in 1..Len(transitions) :
            \E k \in 1..Len(emitted) :
                /\ emitted[k].kind = "StopAllNotes"
                /\ emitted[k].track_id = transitions[n].track_id
                /\ emitted[k].sample_timestamp = transitions[n].observed

\* The counter has reached the end sample e of the sequence of track
\* position i and the worker has not yet handled that boundary.
BoundaryDue(i, e) ==
    /\ worker.pc # "none"
    /\ i <= Len(timing_state.sequence_end_samples)
    /\ timing_state.sequence_end_samples[i] = e
    /\ counter >= e

\* A StopAllNotes of track position i is queued with nothing before it that
\* the next buffer would hold back, and a next buffer fits the clock range.
StopReady(i) ==
    /\ audio_stream # None
    /\ callback.pc = "idle"
    /\ counter + MinFrames <= MaxClock
    /\ \/ audio_state.pending_event = None
       \/ audio_state.pending_event[1].sample_timestamp < counter + MinFrames
    /\ \E k \in 1..Len(queue) :
           /\ queue[k].kind = "StopAllNotes"
           /\ queue[k].track_id = i - 1
           /\ \A j \in 1..k : queue[j].sample_timestamp < counter + MinFrames

\* Some voice started at sample t on track position i is still there.
VoicesAlive(i, t) == \E p \in Pitches : VoiceAlive(i, p, t)

VoiceSilenced ==
    \A i \in VoiceTrackIds, t \in 0..MaxClock :
        (VoicesAlive(i, t) /\ aborted = <<>>)
            ~> (~VoicesAlive(i, t) \/ ClockExhausted \/ aborted # <<>>)

BoundaryHandled ==
    \A i \in VoiceTrackIds, e \in 1..MaxClock :
        BoundaryDue(i, e) ~> ~BoundaryDue(i, e)

StopSilences ==
    \A i \in VoiceTrackIds, t \in 0..MaxClock :
        (VoicesAlive(i, t) /\ StopReady(i)) ~> ~VoicesAlive(i, t)

\* C38: every voice is eventually silenced.  Under fair scheduling of the
\* scheduler worker and the audio callback, with positive sequence durations
\* and no push lost to a full queue: the worker eventually handles every
\* boundary the counter has reached, and handling it puts a StopAllNotes of
\* the track on the queue; a voice for which a StopAllNotes is ready to be
\* drained is eventually silenced, and a slot stays empty after a
\* StopAllNotes until the next NoteOn of its pitch; so every voice that was
\* started is eventually silenced, by the end of its release or by the
\* StopAllNotes of the boundary, as long as a further buffer fits the clock
\* range, a note whose NoteOff was never emitted included.
C38_VoicesEventuallySilenced ==
    /\ [](StoppedSlotsEmpty /\ BoundariesEmitStop)
    /\ BoundaryHandled
    /\ StopSilences
    /\ VoiceSilenced

\* A note whose NoteOff was never emitted has sounded and was silenced by
\* the StopAllNotes of the boundary, while a further buffer still fits.
C38_Witness ==
    /\ ~ClockExhausted
    /\ aborted = <<>>
    /\ \E i \in VoiceTrackIds, p \in Pitches :
           /\ Slot(i, p) = None
           /\ \A k \in 1..Len(emitted) :
                  ~(/\ emitted[k].kind = "NoteOff"
                    /\ emitted[k].track_id = i - 1
                    /\ emitted[k].pitch = p)
           /\ \E k, j \in 1..Len(applied) :
                  /\ k < j
                  /\ AppliedNoteOn(k, i, p)
                  /\ AppliedStop(j, i)

\* The engine handles a Play command.
PlayHandled == \E device_ok \in BOOLEAN : CmdPlay(device_ok)

\* What a Play on an open stream may change: the playing flag becomes true
\* and one PlaybackState{playing: true} update is sent; the stream, the
\* worker, the queue, the counter and its value, the configs, the scheduler
\* state and every PlaybackState stay as they are.
PlayOnStreamEffect ==
    /\ playing' = TRUE
    /\ updates' = Append(updates, Update("PlaybackState", TRUE))
    /\ UNCHANGED <<project, track_configs, sample_counter, audio_stream, workers,
                   counter, queue, timing_state, worker, audio_state, callback>>

\* What a Play without a project may change: nothing, and no update is sent.
PlayWithoutProjectEffect ==
    UNCHANGED <<project, track_configs, sample_counter, audio_stream, playing,
                updates, workers, counter, queue, timing_state, worker,
                audio_state, callback>>

\* C39: Play is idempotent while a stream exists: it creates no second
\* stream, scheduler worker, queue or counter and resets neither the sample
\* counter nor any PlaybackState; only the playing flag becomes true and a
\* PlaybackState{playing: true} update is emitted.  A Play with no project
\* loaded changes nothing and emits nothing.
C39_PlayIdempotent ==
    [][PlayHandled =>
          /\ (project # None /\ audio_stream # None) => PlayOnStreamEffect
          /\ project = None => PlayWithoutProjectEffect]_vars

\* Two Play commands in a row have been handled on an open stream whose
\* clock has advanced and that holds a sounding note.
C39_Witness ==
    /\ audio_stream # None
    /\ workers = 1
    /\ counter > 0
    /\ Len(updates) >= 2
    /\ updates[Len(updates)] = Update("PlaybackState", TRUE)
    /\ updates[Len(updates) - 1] = Update("PlaybackState", TRUE)
    /\ \E i \in 1..Len(audio_state.playback_states), p \in Pitches :
           audio_state.playback_states[i][p] # None

\* C40: in every reachable state of the engine thread, playing = true
\* implies that an audio stream exists and that a project is loaded,
\* whatever sequence of LoadProject, ReloadProject, Play, Pause, Stop and
\* failed audio setups the engine has handled.
C40_PlayingImpliesStream ==
    playing => (audio_stream # None /\ project # None)

\* The engine is playing after an audio setup that failed and one that
\* succeeded.
C40_Witness ==
    /\ playing
    /\ audio_stream # None
    /\ \E k \in 1..Len(updates) :
           updates[k] = Update("Error", "Failed to start audio")

====
